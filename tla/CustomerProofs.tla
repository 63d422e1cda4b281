--------------------------- MODULE CustomerProofs ---------------------------
(***************************************************************************)
(* The customer's browser, for any number of requests under way.           *)
(*                                                                         *)
(* Checkout form: figures are honest, that is, unless the customer has     *)
(* edited since, a code they carried is still there, live or dead; and     *)
(* CreateOrder refuses a dead one.  The cause of a refusal stays on screen *)
(* or is being read again, the answer of an own edit sent since included.  *)
(*                                                                         *)
(* Sign-in: past LockLink a reset holds the link's row, a held row is      *)
(* live, and a live link was never spent.  A session is older than the     *)
(* password only if its sign-in was late.                                  *)
(*                                                                         *)
(* Addresses: the index admits a default only where no other is, committed *)
(* or pending, that its own transaction has not unset.                     *)
(* Orders: a refusal restarts the read whose answer it contradicts.        *)
(*                                                                         *)
(* Basket: what is shown is the server's, or the last write's answer is on *)
(* its way, or a crossing or a change nobody was told of is recorded.  Own *)
(* writes: a fact that a page shows and its mutation changes is in a read  *)
(* which the hook refreshes, fact by fact.                                 *)
(***************************************************************************)
EXTENDS MCCustomer, SequenceTheorems, FiniteSetTheorems, TLAPS

-----------------------------------------------------------------------------
(* A cached entry                                                          *)

\* What is asked for is under way, what is stored is there, and an entry stays one
\* (invalidateQueries, setQueryData, a fetch and its answer).
LEMMA EntryMoves ==
  ASSUME NEW Data, NEW q \in RQ!Entry(Data)
  PROVE  /\ RQ!Ask(q) \in RQ!Entry(Data) /\ RQ!Fetching(RQ!Ask(q)) /\ RQ!Ask(q).data = q.data
         /\ RQ!Ask(q).invalid = q.invalid
         /\ RQ!Mark(q) \in RQ!Entry(Data) /\ RQ!Mark(q).data = q.data
         /\ RQ!Mark(q).fetch = q.fetch /\ RQ!Mark(q).invalid
         /\ RQ!Invalidate(q) \in RQ!Entry(Data) /\ RQ!Fetching(RQ!Invalidate(q))
         /\ RQ!Invalidate(q).data = q.data /\ RQ!Invalidate(q).invalid
         /\ RQ!Invalidate(q).fetch # Sent => RQ!Fetching(q) /\ ~RQ!Loaded(q)
         /\ RQ!GiveUp(q) \in RQ!Entry(Data) /\ RQ!GiveUp(q).data = q.data
         /\ RQ!GiveUp(q).fetch = Idle /\ RQ!GiveUp(q).invalid = q.invalid
BY SentIsNotIdle
DEF RQ!Ask, RQ!Mark, RQ!Invalidate, RQ!GiveUp, RQ!Entry, RQ!Fetching, RQ!Loaded

\* An answer that lands at once shows what the server holds.
LEMMA EntryReads ==
  ASSUME NEW Data, NEW q \in RQ!Entry(Data), NEW d \in Data
  PROVE  /\ RQ!Store(RQ!Answer(q, d)) \in RQ!Entry(Data)
         /\ RQ!Store(RQ!Answer(q, d)).data = d
BY DEF RQ!Answer, RQ!Store, RQ!Entry

\* An answer waits in the entry until it is stored; setQueryData stops no fetch.
LEMMA EntryFills ==
  ASSUME NEW Data, NEW q \in RQ!Entry(Data), NEW d \in Data
  PROVE  /\ RQ!Answer(q, d) \in RQ!Entry(Data) /\ RQ!Answer(q, d).fetch = [got |-> d]
         /\ RQ!Answer(q, d).data = q.data /\ RQ!Answer(q, d).invalid = q.invalid
         /\ RQ!Write(q, d) \in RQ!Entry(Data) /\ RQ!Write(q, d).data = d
         /\ RQ!Write(q, d).fetch = q.fetch /\ ~RQ!Write(q, d).invalid
BY DEF RQ!Answer, RQ!Write, RQ!Entry

\* What lands is what the answer carried, and clears the stale mark.
LEMMA EntryLands ==
  ASSUME NEW Data, NEW q \in RQ!Entry(Data), q.fetch \notin {Idle, Sent}
  PROVE  /\ q.fetch.got \in Data
         /\ RQ!Store(q) = [data |-> q.fetch.got, fetch |-> Idle, invalid |-> FALSE]
         /\ RQ!Store(q) \in RQ!Entry(Data)
BY DEF RQ!Store, RQ!Entry

-----------------------------------------------------------------------------
(* The checkout form                                                       *)

Shop == [at : Nat, own : Nat, filled : BOOLEAN, short : BOOLEAN, code : CodeStates]
Order == [stage : {"sent", "answered"}, heard : BOOLEAN, shown : Nat \cup {Nothing},
          reason : {Nothing, "empty_cart", "insufficient_stock", "promo_invalid"}, at : Nat]
Edit == [stage : {"sent", "applied", "answered"}, op : {"apply", "remove", "put"},
         over : BOOLEAN, lines : LinesRead \cup {Nothing}, figures : FiguresRead \cup {Nothing}]

\* What an answered edit brings: the lines for a quantity, the figures for a code.
LinesBrought == IF edit.stage = "answered" /\ edit.op = "put" THEN {edit.lines} ELSE {}
FiguresBrought == IF edit.stage = "answered" /\ edit.op # "put" THEN {edit.figures} ELSE {}

FormTypeOK ==
  /\ shop \in Shop
  /\ cartQ \in RQ!Entry(LinesRead) /\ previewQ \in RQ!Entry(FiguresRead)
  /\ post \in Order \cup {NoPost}
  /\ edit \in Edit \cup {NoEdit}
  /\ LinesBrought \subseteq LinesRead /\ FiguresBrought \subseteq FiguresRead

\* The shop's present lines and figures are such answers.
LEMMA ShopAnswers ==
  ASSUME shop \in Shop
  PROVE  Lines \in LinesRead /\ Figures \in FiguresRead /\ shop.at \in Nat
         /\ Lines.at = shop.at /\ Figures.at = shop.at /\ Figures.code = shop.code
BY DEF Shop, Lines, Figures, LinesRead, FiguresRead

\* An order under way is told from none, an edit too.
LEMMA MarksAreMarks == NoPost \notin Order /\ NoEdit \notin Edit
<1>1. ASSUME NoPost \in Order PROVE FALSE
  BY <1>1 DEF Order, NoPost
<1>2. ASSUME NoEdit \in Edit PROVE FALSE
  BY <1>2 DEF Edit, NoEdit
<1> QED BY <1>1, <1>2

-----------------------------------------------------------------------------
(* What one step does to each part *)

\* To a cached entry: it is asked for, read, stored, given up on, or written over by what an
\* edit brought.
Moves(q, p, read, brought) ==
  \/ p \in {q, RQ!Ask(q), Refreshed(q)}
  \/ q.fetch \notin {Idle, Sent} /\ p = RQ!Store(q)
  \/ p = RQ!Answer(q, read) /\ shop' = shop
  \/ p = RQ!GiveUp(q) /\ missed' = (missed \/ refusal # Nothing)
  \/ /\ \E d \in brought : p = RQ!Write(q, d)
     /\ missed' = (missed \/ (edit.over /\ refusal # Nothing))

CartMoves == Moves(cartQ, cartQ', Lines, LinesBrought)
PreviewMoves == Moves(previewQ, previewQ', Figures, FiguresBrought)

\* To the edit: it brings what it brought, what the shop shows now, or nothing.
EditMoves ==
  /\ edit' \in Edit \cup {NoEdit}
  /\ \/ LinesBrought' = {} /\ FiguresBrought' = {}
     \/ /\ LinesBrought' = LinesBrought /\ FiguresBrought' = FiguresBrought
        /\ edit'.over = edit.over \/ edit'.over = TRUE
     \/ /\ LinesBrought' \subseteq {Lines} /\ FiguresBrought' \subseteq {Figures}
        /\ shop' = shop

\* To the order: it keeps the discount it was sent with, and is refused at the present edition.
PostMoves ==
  \/ post' = NoPost
  \/ SubmitOrder
  \/ /\ post # NoPost /\ post' \in Order
     /\ post'.shown = post.shown
     /\ post'.heard => post.heard
     /\ post'.at = post.at \/ post'.at = shop.at

\* To the shop: the customer's change makes every older edition another's; a change of others
\* leaves a code where it was.
Onward ==
  /\ shop' \in Shop /\ shop'.at >= shop.at
  /\ \/ shop'.own = shop.own /\ (shop'.code = "none" => shop.code = "none")
     \/ shop'.own > shop.at

\* A changed shop counts one edition more.
LEMMA BecomesOnward ==
  ASSUME shop \in Shop, NEW new \in Shop, new.own = shop.own,
         \/ Becomes(new) /\ (new.code = "none" => shop.code = "none")
         \/ BecomesOwn(new)
  PROVE  Onward
<1>1. shop.at + 1 \in Nat /\ shop.at + 1 > shop.at /\ shop.at \in Nat
  BY DEF Shop
<1>2. CASE Becomes(new) /\ (new.code = "none" => shop.code = "none")
  <2>1. shop' = [new EXCEPT !.at = shop.at + 1]
    BY <1>2 DEF Becomes
  <2>2. shop' \in Shop /\ shop'.own = new.own /\ shop'.code = new.code /\ shop'.at = shop.at + 1
    BY <1>1, <2>1 DEF Shop
  <2> QED BY <1>1, <1>2, <2>2 DEF Onward
<1>3. CASE BecomesOwn(new)
  <2>1. shop' = [[new EXCEPT !.own = shop.at + 1] EXCEPT !.at = shop.at + 1]
    BY <1>3 DEF BecomesOwn, Becomes
  <2>2. shop' \in Shop /\ shop'.own = shop.at + 1 /\ shop'.at = shop.at + 1
    BY <1>1, <2>1 DEF Shop
  <2> QED BY <1>1, <2>2 DEF Onward
<1> QED BY <1>2, <1>3

\* What a customer's edit makes of the shop is a shop.
LEMMA OutcomesAreShops ==
  ASSUME shop \in Shop, NEW op, NEW new \in Outcomes(op), op \in {"apply", "remove", "put"}
  PROVE  new \in Shop /\ new.own = shop.own
<1>1. WithCode("live") \in Shop /\ WithCode("live").own = shop.own
  BY DEF WithCode, Shop, CodeStates
<1>2. WithCode("none") \in Shop /\ WithCode("none").own = shop.own
  BY DEF WithCode, Shop, CodeStates
<1>3. ASSUME NEW few \in BOOLEAN, NEW c \in Kept
      PROVE  WithQuantity(few, c) \in Shop /\ WithQuantity(few, c).own = shop.own
  BY DEF WithQuantity, Kept, Shop, CodeStates
<1> QED BY <1>1, <1>2, <1>3 DEF Outcomes

-----------------------------------------------------------------------------
(* Every step is made of such moves *)

StepShape == CartMoves /\ PreviewMoves /\ EditMoves /\ PostMoves /\ Onward

LEMMA KeptParts ==
  ASSUME FormTypeOK
  PROVE  /\ shop' = shop => Onward
         /\ UNCHANGED cacheVars => CartMoves /\ PreviewMoves
         /\ edit' = edit => EditMoves
         /\ post' = post => PostMoves
<1>1. shop' = shop => Onward
  BY DEF FormTypeOK, Onward, Shop
<1>2. UNCHANGED cacheVars => CartMoves /\ PreviewMoves
  BY DEF cacheVars, CartMoves, PreviewMoves, Moves
<1>3. edit' = edit => EditMoves
  BY DEF FormTypeOK, EditMoves, LinesBrought, FiguresBrought
<1>4. post' = post => PostMoves
  BY DEF FormTypeOK, PostMoves
<1> QED BY <1>1, <1>2, <1>3, <1>4

\* The page and its reads.
LEMMA PageShape ==
  ASSUME FormTypeOK,
         Arrive \/ Leave \/ WindowFocus \/ SubmitOrder \/ Read \/ ReadArrives \/ ReadFails
           \/ UNCHANGED formVars
  PROVE  StepShape
<1>1. shop' = shop /\ edit' = edit
  BY DEF Arrive, Leave, WindowFocus, SubmitOrder, Read, ReadArrives, ReadFails, formVars
<1>2. CartMoves /\ PreviewMoves
  <2>1. CASE Arrive
    BY <2>1 DEF Arrive, CartMoves, PreviewMoves, Moves
  <2>2. CASE WindowFocus
    BY <2>2 DEF WindowFocus, CartMoves, PreviewMoves, Moves
  <2>3. CASE Leave \/ SubmitOrder \/ UNCHANGED formVars
    <3>1. UNCHANGED cacheVars
      BY <2>3 DEF Leave, SubmitOrder, formVars, cacheVars
    <3> QED BY <3>1, KeptParts
  <2>4. CASE Read
    BY <1>1, <2>4 DEF Read, CartMoves, PreviewMoves, Moves
  <2>5. CASE ReadArrives
    BY <2>5 DEF ReadArrives, CartMoves, PreviewMoves, Moves
  <2>6. CASE ReadFails
    BY <2>6 DEF ReadFails, CartMoves, PreviewMoves, Moves
  <2> QED BY <2>1, <2>2, <2>3, <2>4, <2>5, <2>6
<1>3. PostMoves
  <2>1. CASE SubmitOrder
    BY <2>1 DEF PostMoves
  <2>2. CASE Leave
    <3>1. CASE post = NoPost
      BY <2>2, <3>1 DEF Leave, Unheard, PostMoves
    <3>2. CASE post # NoPost
      <4>1. post \in Order /\ post' = [post EXCEPT !.heard = FALSE]
        BY <2>2, <3>2 DEF Leave, Unheard, FormTypeOK
      <4> QED BY <3>2, <4>1 DEF PostMoves, Order
    <3> QED BY <3>1, <3>2
  <2>3. CASE Arrive \/ WindowFocus \/ Read \/ ReadArrives \/ ReadFails \/ UNCHANGED formVars
    <3>1. post' = post
      BY <2>3 DEF Arrive, WindowFocus, Read, ReadArrives, ReadFails, formVars
    <3> QED BY <3>1, KeptParts
  <2> QED BY <2>1, <2>2, <2>3
<1> QED BY <1>1, <1>2, <1>3, KeptParts DEF StepShape

\* Other customers, and this one elsewhere.
LEMMA ShopShape ==
  ASSUME FormTypeOK, SellOut \/ PromoDies \/ OtherTab
  PROVE  StepShape
<1>0. shop \in Shop
  BY DEF FormTypeOK
<1>1. UNCHANGED cacheVars /\ post' = post /\ edit' = edit
  BY DEF SellOut, PromoDies, OtherTab
<1>2. Onward
  <2>1. CASE SellOut
    <3> DEFINE new == [shop EXCEPT !.short = TRUE]
    <3>1. new \in Shop /\ new.own = shop.own /\ new.code = shop.code
      BY <1>0 DEF Shop
    <3> QED BY <1>0, <2>1, <3>1, BecomesOnward DEF SellOut
  <2>2. CASE PromoDies
    <3> DEFINE new == WithCode("dead")
    <3>1. new \in Shop /\ new.own = shop.own /\ new.code # "none"
      BY <1>0 DEF WithCode, Shop, CodeStates
    <3> QED BY <1>0, <2>2, <3>1, BecomesOnward DEF PromoDies
  <2>3. CASE OtherTab
    <3>0. PICK c \in {"none", "live"} :
            BecomesOwn([shop EXCEPT !.filled = TRUE, !.short = FALSE, !.code = c])
      BY <2>3 DEF OtherTab
    <3> DEFINE new == [shop EXCEPT !.filled = TRUE, !.short = FALSE, !.code = c]
    <3>1. new \in Shop /\ new.own = shop.own
      BY <1>0 DEF Shop, CodeStates
    <3> QED BY <1>0, <3>0, <3>1, BecomesOnward
  <2> QED BY <2>1, <2>2, <2>3
<1> QED BY <1>1, <1>2, KeptParts DEF StepShape

\* The order at the server, and what the page makes of its answer or of its loss.
LEMMA OrderShape ==
  ASSUME FormTypeOK, RefuseOrder \/ PlaceOrder \/ LandPlaced \/ LandRefused \/ LoseOrder
  PROVE  StepShape
<1>0. shop \in Shop /\ post \in Order \cup {NoPost}
  BY DEF FormTypeOK
<1>s. post.stage = "sent" => post # NoPost
  BY DEF NoPost
<1>1. CASE RefuseOrder
  <2>a. post.stage = "sent"
    BY <1>1, Zenon DEF RefuseOrder
  <2>0. post # NoPost /\ post \in Order
    BY <1>0, <1>s, <2>a
  <2>1. PICK r \in Reasons :
          post' = [post EXCEPT !.stage = "answered", !.reason = r, !.at = shop.at]
    BY <1>1, Zenon DEF RefuseOrder
  <2>2. r \in {"empty_cart", "insufficient_stock", "promo_invalid"}
    BY DEF Reasons, RefusesDeadCode
  <2>3. PostMoves
    BY <1>0, <2>0, <2>1, <2>2 DEF PostMoves, Order, Shop
  <2>4. UNCHANGED cacheVars /\ edit' = edit /\ shop' = shop
    BY <1>1, Zenon DEF RefuseOrder
  <2> QED BY <2>3, <2>4, KeptParts DEF StepShape
<1>2. CASE PlaceOrder
  <2>a. post.stage = "sent"
    BY <1>2, Zenon DEF PlaceOrder
  <2>0. post # NoPost /\ post \in Order
    BY <1>0, <1>s, <2>a
  <2>1. PostMoves
    BY <2>0, <1>2 DEF PlaceOrder, PostMoves, Order
  <2> DEFINE new == [shop EXCEPT !.filled = FALSE, !.code = "none"]
  <2>2. new \in Shop /\ new.own = shop.own
    BY <1>0 DEF Shop, CodeStates
  <2>3. BecomesOwn(new)
    BY <1>2 DEF PlaceOrder
  <2> HIDE DEF new
  <2>4. Onward
    BY <1>0, <2>2, <2>3, BecomesOnward
  <2>5. UNCHANGED cacheVars /\ edit' = edit
    BY <1>2 DEF PlaceOrder
  <2> QED BY <2>1, <2>4, <2>5, KeptParts DEF StepShape
<1>3. CASE LandPlaced
  <2>1. CartMoves /\ PreviewMoves
    BY <1>3 DEF LandPlaced, MadeStale, CartMoves, PreviewMoves, Moves
  <2>2. post' = NoPost /\ edit' = edit /\ shop' = shop
    BY <1>3 DEF LandPlaced
  <2> QED BY <2>1, <2>2, KeptParts DEF StepShape, PostMoves
<1>4. CASE LandRefused
  <2>1. CartMoves /\ PreviewMoves
    BY <1>4 DEF LandRefused, cacheVars, CartMoves, PreviewMoves, Moves
  <2>2. EditMoves
    <3>1. CASE edit' = edit
      BY <3>1, KeptParts
    <3>2. CASE edit # NoEdit /\ edit' = [edit EXCEPT !.over = TRUE]
      <4>1. edit \in Edit
        BY <3>2 DEF FormTypeOK
      <4>2. /\ edit' \in Edit /\ edit'.over = TRUE /\ edit'.stage = edit.stage
            /\ edit'.op = edit.op /\ edit'.lines = edit.lines /\ edit'.figures = edit.figures
        BY <3>2, <4>1 DEF Edit
      <4> QED BY <4>2 DEF EditMoves, LinesBrought, FiguresBrought
    <3> QED BY <1>4, <3>1, <3>2 DEF LandRefused
  <2>3. post' = NoPost /\ shop' = shop
    BY <1>4 DEF LandRefused
  <2> QED BY <2>1, <2>2, <2>3, KeptParts DEF StepShape, PostMoves
<1>5. CASE LoseOrder
  <2>1. post' = NoPost /\ edit' = edit /\ shop' = shop /\ UNCHANGED cacheVars
    BY <1>5 DEF LoseOrder
  <2> QED BY <2>1, KeptParts DEF StepShape, PostMoves
<1> QED BY <1>1, <1>2, <1>3, <1>4, <1>5

\* A basket or code change of this tab.
LEMMA EditShape ==
  ASSUME FormTypeOK, PromoBox \/ SetQuantity \/ ApplyEdit \/ ReplyEdit \/ LandEdit \/ LoseEdit
  PROVE  StepShape
<1>0. shop \in Shop /\ edit \in Edit \cup {NoEdit} /\ post' = post
  BY DEF FormTypeOK, PromoBox, SetQuantity, SendEdit, ApplyEdit, ReplyEdit, LandEdit, LoseEdit
<1>1. CASE PromoBox \/ SetQuantity
  <2>1. PICK op \in {"apply", "remove", "put"} : SendEdit(op)
    BY <1>1 DEF PromoBox, SetQuantity
  <2>2. EditMoves
    BY <2>1 DEF SendEdit, EditMoves, Edit, LinesBrought, FiguresBrought
  <2>3. UNCHANGED cacheVars /\ shop' = shop
    BY <2>1 DEF SendEdit
  <2> QED BY <1>0, <2>2, <2>3, KeptParts DEF StepShape
<1>2. CASE ApplyEdit
  <2>0. edit # NoEdit /\ edit \in Edit
    BY <1>0, <1>2 DEF ApplyEdit, NoEdit
  <2>1. PICK new \in Outcomes(edit.op) : BecomesOwn(new)
    BY <1>2 DEF ApplyEdit
  <2>2. edit.op \in {"apply", "remove", "put"}
    BY <2>0 DEF Edit
  <2>3. Onward
    BY <1>0, <2>1, <2>2, OutcomesAreShops, BecomesOnward
  <2>4. edit' \in Edit /\ edit'.stage = "applied"
    BY <1>2, <2>0 DEF ApplyEdit, Edit
  <2>5. EditMoves
    BY <2>4 DEF EditMoves, LinesBrought, FiguresBrought
  <2>6. UNCHANGED cacheVars
    BY <1>2 DEF ApplyEdit
  <2> QED BY <1>0, <2>3, <2>5, <2>6, KeptParts DEF StepShape
<1>3. CASE ReplyEdit
  <2>0. edit # NoEdit /\ edit \in Edit /\ shop' = shop /\ UNCHANGED cacheVars
    BY <1>0, <1>3 DEF ReplyEdit, NoEdit
  <2>1. Lines \in LinesRead /\ Figures \in FiguresRead
    BY <1>0, ShopAnswers
  <2>2. CASE edit.op = "put"
    <3>1. edit' = [edit EXCEPT !.stage = "answered", !.lines = Lines]
      BY <1>3, <2>2 DEF ReplyEdit
    <3>2. edit' \in Edit /\ edit'.op = "put" /\ edit'.lines = Lines
      BY <2>0, <2>1, <2>2, <3>1 DEF Edit
    <3>3. EditMoves
      BY <2>0, <3>2 DEF EditMoves, LinesBrought, FiguresBrought
    <3> QED BY <1>0, <2>0, <3>3, KeptParts DEF StepShape
  <2>3. CASE edit.op # "put"
    <3>1. edit' = [edit EXCEPT !.stage = "answered", !.figures = Figures]
      BY <1>3, <2>3 DEF ReplyEdit
    <3>2. edit' \in Edit /\ edit'.op # "put" /\ edit'.figures = Figures
      BY <2>0, <2>1, <2>3, <3>1 DEF Edit
    <3>3. EditMoves
      BY <2>0, <3>2 DEF EditMoves, LinesBrought, FiguresBrought
    <3> QED BY <1>0, <2>0, <3>3, KeptParts DEF StepShape
  <2> QED BY <2>2, <2>3
<1>4. CASE LandEdit
  <2>1. edit' = NoEdit /\ shop' = shop
    BY <1>4 DEF LandEdit
  <2>2. EditMoves
    BY <2>1 DEF EditMoves, LinesBrought, FiguresBrought, NoEdit
  <2>3. CartMoves /\ PreviewMoves
    BY <1>4 DEF LandEdit, MadeStale, CartMoves, PreviewMoves, Moves, LinesBrought, FiguresBrought
  <2> QED BY <1>0, <2>1, <2>2, <2>3, KeptParts DEF StepShape
<1>5. CASE LoseEdit
  <2>1. edit' = NoEdit /\ shop' = shop /\ UNCHANGED cacheVars
    BY <1>5 DEF LoseEdit
  <2>2. EditMoves
    BY <2>1 DEF EditMoves, LinesBrought, FiguresBrought, NoEdit
  <2> QED BY <1>0, <2>1, <2>2, KeptParts DEF StepShape
<1> QED BY <1>1, <1>2, <1>3, <1>4, <1>5

LEMMA EveryShape == FormTypeOK /\ [FormNext]_formVars => StepShape
BY PageShape, ShopShape, OrderShape, EditShape DEF FormNext

-----------------------------------------------------------------------------
(* Honest figures *)

\* What an entry shows, or is about to.
OnIt(q, f) == q.data = f \/ q.fetch = [got |-> f]

\* A moved entry is one still, stays loaded, and holds what it held, what an edit brought, or
\* what the shop shows now.
LEMMA MovedEntry ==
  ASSUME NEW Data \in {LinesRead, FiguresRead}, NEW q \in RQ!Entry(Data), NEW p,
         NEW read \in Data, NEW brought \in SUBSET Data, Moves(q, p, read, brought)
  PROVE  /\ p \in RQ!Entry(Data)
         /\ RQ!Loaded(q) => RQ!Loaded(p)
         /\ \A f \in Data : OnIt(p, f) => OnIt(q, f) \/ f \in brought \/ (f = read /\ shop' = shop)
<1>0. Nothing \notin Data /\ Idle \notin [got : Data] /\ Sent \notin [got : Data]
  BY AnswersHaveShape
<1>1. CASE p \in {q, RQ!Ask(q), Refreshed(q)}
  <2>1. p \in RQ!Entry(Data) /\ p.data = q.data /\ p.fetch \in {q.fetch, Sent}
    BY <1>1 DEF RQ!Ask, Refreshed, RQ!Invalidate, RQ!Mark, RQ!Entry
  <2>2. \A f \in Data : Sent # [got |-> f]
    BY <1>0
  <2> QED BY <2>1, <2>2 DEF OnIt, RQ!Loaded
<1>2. CASE q.fetch \notin {Idle, Sent} /\ p = RQ!Store(q)
  <2>1. PICK d \in Data : q.fetch = [got |-> d]
    BY <1>2 DEF RQ!Entry
  <2>2. p = [data |-> d, fetch |-> Idle, invalid |-> FALSE]
    BY <1>2, <2>1 DEF RQ!Store
  <2>3. \A f \in Data : Idle # [got |-> f]
    BY <1>0
  <2> QED BY <1>0, <2>1, <2>2, <2>3 DEF OnIt, RQ!Loaded, RQ!Entry
<1>3. CASE p = RQ!Answer(q, read) /\ shop' = shop
  <2>1. p \in RQ!Entry(Data) /\ p.data = q.data /\ p.fetch = [got |-> read]
    BY <1>3 DEF RQ!Answer, RQ!Entry
  <2>2. \A f \in Data : [got |-> read] = [got |-> f] => f = read
    OBVIOUS
  <2> QED BY <1>3, <2>1, <2>2 DEF OnIt, RQ!Loaded
<1>4. CASE p = RQ!GiveUp(q)
  <2>1. p \in RQ!Entry(Data) /\ p.data = q.data /\ p.fetch = Idle
    BY <1>4 DEF RQ!GiveUp, RQ!Entry
  <2>2. \A f \in Data : Idle # [got |-> f]
    BY <1>0
  <2> QED BY <2>1, <2>2 DEF OnIt, RQ!Loaded
<1>5. ASSUME NEW d \in brought, p = RQ!Write(q, d)
      PROVE  /\ p \in RQ!Entry(Data)
             /\ RQ!Loaded(q) => RQ!Loaded(p)
             /\ \A f \in Data : OnIt(p, f) => OnIt(q, f) \/ f \in brought
  <2>1. d \in Data /\ p \in RQ!Entry(Data) /\ p.data = d /\ p.fetch = q.fetch
    BY <1>5 DEF RQ!Write, RQ!Entry
  <2> QED BY <1>0, <2>1 DEF OnIt, RQ!Loaded
<1> QED BY <1>1, <1>2, <1>3, <1>4, <1>5 DEF Moves

\* Every step keeps the types.
LEMMA FormTypeStep == ASSUME FormTypeOK, StepShape PROVE FormTypeOK'
<1>0. /\ shop \in Shop /\ Lines \in LinesRead /\ Figures \in FiguresRead
      /\ LinesBrought \in SUBSET LinesRead /\ FiguresBrought \in SUBSET FiguresRead
  BY ShopAnswers DEF FormTypeOK
<1>1. cartQ' \in RQ!Entry(LinesRead)
  BY <1>0, MovedEntry DEF FormTypeOK, StepShape, CartMoves
<1>2. previewQ' \in RQ!Entry(FiguresRead)
  BY <1>0, MovedEntry DEF FormTypeOK, StepShape, PreviewMoves
<1>3. edit' \in Edit \cup {NoEdit} /\ LinesBrought' \subseteq LinesRead
      /\ FiguresBrought' \subseteq FiguresRead
  BY <1>0 DEF StepShape, EditMoves
<1>4. post' \in Order \cup {NoPost}
  <2>1. CASE SubmitOrder
    <3>1. ShownDiscount \in Nat \cup {Nothing}
      <4>1. previewQ.data \in FiguresRead
        BY <2>1 DEF SubmitOrder, FormVisible, FormTypeOK, RQ!Entry, RQ!Loaded
      <4> QED BY <4>1 DEF ShownDiscount, FiguresRead
    <3> QED BY <2>1, <3>1 DEF SubmitOrder, Order
  <2> QED BY <2>1 DEF StepShape, PostMoves
<1> QED BY <1>1, <1>2, <1>3, <1>4 DEF FormTypeOK, StepShape, Onward

\* Since edition n the customer changed something, or a code that held then is still there,
\* live or dead.
Accounted(n) == n <= shop.at /\ (n >= shop.own => shop.code # "none")
Honest(f) == f.at <= shop.at /\ (f.code = "live" => Accounted(f.at))

HonestInv ==
  /\ FormTypeOK
  /\ \A f \in FiguresRead : OnIt(previewQ, f) \/ f \in FiguresBrought => Honest(f)
  /\ post # NoPost /\ post.shown # Nothing => Accounted(post.shown)

\* A code that was shown outlives every change but the customer's own.
LEMMA HonestOnward ==
  ASSUME shop \in Shop, Onward
  PROVE  /\ \A n \in Nat : Accounted(n) => Accounted(n)'
         /\ \A f \in FiguresRead : Honest(f) => Honest(f)'
<1>1. \A n \in Nat : Accounted(n) => Accounted(n)'
  BY DEF Onward, Accounted, Shop
<1>2. \A f \in FiguresRead : f.at \in Nat
  BY DEF FiguresRead
<1>3. \A n \in Nat : n <= shop.at => n <= shop'.at
  BY DEF Onward, Shop
<1> QED BY <1>1, <1>2, <1>3 DEF Honest

\* Every step of the checkout page keeps HonestInv.
LEMMA HonestStep == HonestInv /\ [FormNext]_formVars => HonestInv'
<1> SUFFICES ASSUME HonestInv, [FormNext]_formVars PROVE HonestInv'
  OBVIOUS
<1>0. FormTypeOK /\ StepShape /\ shop \in Shop
  BY EveryShape DEF HonestInv, FormTypeOK
<1>1. FormTypeOK' /\ Onward
  BY <1>0, FormTypeStep DEF StepShape
<1>2. /\ Figures \in FiguresRead /\ FiguresBrought \in SUBSET FiguresRead
      /\ previewQ \in RQ!Entry(FiguresRead)
  BY <1>0, ShopAnswers DEF FormTypeOK
<1>3. \A f \in FiguresRead : OnIt(previewQ', f) =>
        OnIt(previewQ, f) \/ f \in FiguresBrought \/ (f = Figures /\ shop' = shop)
  BY <1>0, <1>2, MovedEntry DEF StepShape, PreviewMoves
<1>4. \A f \in FiguresRead : f \in FiguresBrought' =>
        f \in FiguresBrought \/ (f = Figures /\ shop' = shop)
  BY <1>0 DEF StepShape, EditMoves
<1>5. Honest(Figures)
  <2>1. Figures.at = shop.at /\ Figures.code = shop.code /\ shop.at \in Nat
    BY <1>0, ShopAnswers
  <2> QED BY <2>1 DEF Honest, Accounted
<1>6. ASSUME NEW f \in FiguresRead, OnIt(previewQ', f) \/ f \in FiguresBrought'
      PROVE  Honest(f)'
  <2>1. OnIt(previewQ, f) \/ f \in FiguresBrought \/ f = Figures
    BY <1>3, <1>4, <1>6
  <2>2. Honest(f)
    BY <1>5, <2>1 DEF HonestInv
  <2> QED BY <1>0, <1>1, <2>2, HonestOnward
<1>7. ASSUME post' # NoPost, post'.shown # Nothing PROVE Accounted(post.shown)'
  <2>1. CASE SubmitOrder
    <3>1. /\ previewQ.data \in FiguresRead /\ OnIt(previewQ, previewQ.data)
          /\ post'.shown = ShownDiscount
      BY <1>2, <2>1 DEF SubmitOrder, FormVisible, RQ!Entry, RQ!Loaded, OnIt
    <3>2. previewQ.data.code = "live" /\ post'.shown = previewQ.data.at
      BY <1>7, <3>1 DEF ShownDiscount
    <3>3. Accounted(previewQ.data.at) /\ previewQ.data.at \in Nat
      BY <3>1, <3>2 DEF HonestInv, Honest, FiguresRead
    <3>4. Accounted(previewQ.data.at) /\ shop' = shop
      BY <2>1, <3>3 DEF SubmitOrder
    <3> QED BY <3>2, <3>4 DEF Accounted
  <2>2. CASE ~SubmitOrder
    <3>1. post # NoPost /\ post'.shown = post.shown
      BY <1>0, <1>7, <2>2 DEF StepShape, PostMoves
    <3>2. Accounted(post.shown) /\ post.shown \in Nat
      BY <1>0, <1>7, <3>1 DEF HonestInv, FormTypeOK, Order
    <3> QED BY <1>0, <1>1, <3>1, <3>2, HonestOnward DEF Accounted
  <2> QED BY <2>1, <2>2
<1> QED BY <1>1, <1>6, <1>7 DEF HonestInv

\* At the start nothing is read and nothing sent.
LEMMA HonestStart == FormInit => HonestInv
<1> SUFFICES ASSUME FormInit PROVE HonestInv
  OBVIOUS
<1>1. shop \in Shop
  BY DEF FormInit, Shop, CodeStates
<1>2. /\ previewQ \in RQ!Entry(FiguresRead) /\ cartQ \in RQ!Entry(LinesRead)
      /\ previewQ.data = Nothing /\ previewQ.fetch = Idle
  BY DEF FormInit, RQ!Fresh, RQ!Entry
<1>3. FiguresBrought = {} /\ LinesBrought = {} /\ post = NoPost /\ edit = NoEdit
  BY DEF FormInit, FiguresBrought, LinesBrought, NoEdit
<1>4. \A f \in FiguresRead : f # Nothing /\ [got |-> f] # Idle
  BY AnswersHaveShape
<1> QED BY <1>1, <1>2, <1>3, <1>4 DEF HonestInv, FormTypeOK, OnIt

\* A discount on screen is in the order, whatever expired meanwhile: the order is refused with
\* promo_invalid rather than placed without it, unless the customer changed the basket or the
\* code since the figures (CreateOrder, and whatever wrote the preview).
THEOREM DiscountsAreKept == FormSpec => DiscountIsKept
<1>1. HonestInv /\ [FormNext]_formVars => HonestInv'
  BY HonestStep
<1>2. HonestInv => [KeepsDiscount]_formVars
  <2> SUFFICES ASSUME HonestInv, PlaceOrder, post.shown # Nothing, post.shown >= shop.own
               PROVE  shop.code = "live"
    BY DEF KeepsDiscount
  <2>0. post # NoPost
    BY DEF PlaceOrder, NoPost
  <2>1. shop.code # "none"
    BY <2>0 DEF HonestInv, Accounted
  <2>2. shop.code # "dead"
    BY DEF PlaceOrder, Reasons, RefusesDeadCode
  <2> QED BY <2>1, <2>2 DEF HonestInv, FormTypeOK, Shop, CodeStates
<1> QED BY <1>1, <1>2, HonestStart, PTL DEF FormSpec, DiscountIsKept

-----------------------------------------------------------------------------
(* A refusal and the figures beside it *)

\* Nothing the entry shows or is about to is older than edition n, unless it is asked again.
FreshIn(q, Data, n) ==
  /\ q.fetch = Idle => q.data \in Data /\ q.data.at >= n
  /\ \A d \in Data : q.fetch = [got |-> d] => d.at >= n

BroughtAt(n) ==
  ~edit.over => (\A d \in LinesBrought : d.at >= n) /\ \A d \in FiguresBrought : d.at >= n

CauseInv ==
  /\ HonestInv
  /\ refusedAt \in Nat /\ refusedAt <= shop.at
  /\ ~onPage => refusal = Nothing /\ (post # NoPost => ~post.heard)
  /\ post # NoPost => post.at <= shop.at /\ RQ!Loaded(cartQ) /\ RQ!Loaded(previewQ)
  /\ ~missed /\ refusal \in {"insufficient_stock", "promo_invalid"} =>
       /\ BroughtAt(refusedAt)
       /\ refusal = "insufficient_stock" => FreshIn(cartQ, LinesRead, refusedAt)
       /\ FreshIn(previewQ, FiguresRead, refusedAt)

\* A loaded entry that is asked again shows nothing older once it is read.
LEMMA FreshAsked ==
  ASSUME NEW Data \in {LinesRead, FiguresRead}, NEW q \in RQ!Entry(Data), RQ!Loaded(q), NEW n
  PROVE  FreshIn(Refreshed(q), Data, n)
<1>1. Refreshed(q).fetch = Sent
  BY DEF Refreshed, RQ!Invalidate, RQ!Mark, RQ!Entry
<1>2. \A d \in Data : Sent # [got |-> d]
  BY AnswersHaveShape
<1> QED BY <1>1, <1>2, SentIsNotIdle DEF FreshIn

\* A move keeps an entry as fresh, unless a read failed or an older answer was stored over it.
LEMMA FreshMoves ==
  ASSUME NEW Data \in {LinesRead, FiguresRead}, NEW q \in RQ!Entry(Data), NEW p,
         NEW read \in Data, NEW brought \in SUBSET Data, Moves(q, p, read, brought),
         NEW n \in Nat, FreshIn(q, Data, n), read.at >= n, refusal # Nothing,
         ~edit.over => \A d \in brought : d.at >= n
  PROVE  FreshIn(p, Data, n) \/ missed'
<1>0. \A d \in Data : Idle # [got |-> d] /\ Sent # [got |-> d]
  BY AnswersHaveShape
<1>1. CASE p \in {q, RQ!Ask(q), Refreshed(q)}
  <2>1. p.data = q.data /\ (p.fetch = q.fetch \/ p.fetch = Sent)
    BY <1>1 DEF RQ!Ask, Refreshed, RQ!Invalidate, RQ!Mark, RQ!Entry
  <2> QED BY <1>0, <2>1, SentIsNotIdle DEF FreshIn
<1>2. CASE q.fetch \notin {Idle, Sent} /\ p = RQ!Store(q)
  <2>1. PICK d \in Data : q.fetch = [got |-> d]
    BY <1>2 DEF RQ!Entry
  <2>2. p.data = d /\ p.fetch = Idle
    BY <1>2, <2>1 DEF RQ!Store
  <2> QED BY <1>0, <2>1, <2>2 DEF FreshIn
<1>3. CASE p = RQ!Answer(q, read)
  <2>1. p.fetch = [got |-> read]
    BY <1>3 DEF RQ!Answer, RQ!Entry
  <2>2. \A d \in Data : [got |-> read] = [got |-> d] => d = read
    OBVIOUS
  <2> QED BY <1>0, <2>1, <2>2 DEF FreshIn
<1>4. CASE missed' = (missed \/ refusal # Nothing)
  BY <1>4
<1>5. ASSUME NEW d \in brought, p = RQ!Write(q, d),
             missed' = (missed \/ (edit.over /\ refusal # Nothing))
      PROVE  FreshIn(p, Data, n) \/ missed'
  <2>1. CASE edit.over
    BY <1>5, <2>1
  <2>2. CASE ~edit.over
    <3>1. d \in Data /\ p.data = d /\ p.fetch = q.fetch /\ d.at >= n
      BY <1>5, <2>2 DEF RQ!Write, RQ!Entry
    <3> QED BY <3>1 DEF FreshIn
  <2> QED BY <2>1, <2>2
<1> QED BY <1>1, <1>2, <1>3, <1>4, <1>5 DEF Moves

\* The steps that neither bring nor take away a refusal.
LEMMA CauseStays ==
  ASSUME CauseInv, FormTypeOK, StepShape, HonestInv',
         UNCHANGED <<refusal, refusedAt>>, missed => missed'
  PROVE  ~missed' /\ refusal' \in {"insufficient_stock", "promo_invalid"} =>
           /\ BroughtAt(refusedAt)'
           /\ refusal' = "insufficient_stock" => FreshIn(cartQ', LinesRead, refusedAt')
           /\ FreshIn(previewQ', FiguresRead, refusedAt')
<1> SUFFICES ASSUME ~missed', refusal' \in {"insufficient_stock", "promo_invalid"}
             PROVE  /\ BroughtAt(refusedAt)'
                    /\ refusal' = "insufficient_stock" => FreshIn(cartQ', LinesRead, refusedAt')
                    /\ FreshIn(previewQ', FiguresRead, refusedAt')
  OBVIOUS
<1>0. /\ ~missed /\ refusal \in {"insufficient_stock", "promo_invalid"} /\ refusal # Nothing
      /\ refusedAt \in Nat /\ refusedAt <= shop.at /\ refusedAt' = refusedAt /\ refusal' = refusal
  BY AnswersHaveShape DEF CauseInv
<1>1. /\ Lines \in LinesRead /\ Figures \in FiguresRead
      /\ Lines.at = shop.at /\ Figures.at = shop.at
      /\ cartQ \in RQ!Entry(LinesRead) /\ previewQ \in RQ!Entry(FiguresRead)
      /\ LinesBrought \in SUBSET LinesRead /\ FiguresBrought \in SUBSET FiguresRead
  BY ShopAnswers DEF FormTypeOK
<1>2. BroughtAt(refusedAt) /\ FreshIn(previewQ, FiguresRead, refusedAt)
      /\ (refusal = "insufficient_stock" => FreshIn(cartQ, LinesRead, refusedAt))
  BY <1>0 DEF CauseInv
<1>3. BroughtAt(refusedAt)'
  <2>1. BroughtAt(refusedAt) /\ EditMoves
    BY <1>2 DEF StepShape
  <2>2. Lines.at >= refusedAt /\ Figures.at >= refusedAt
    BY <1>0, <1>1
  <2> QED BY <1>0, <2>1, <2>2 DEF EditMoves, BroughtAt
<1>4. FreshIn(previewQ', FiguresRead, refusedAt)
  <2>1. ~edit.over => \A d \in FiguresBrought : d.at >= refusedAt
    BY <1>2 DEF BroughtAt
  <2>2. Moves(previewQ, previewQ', Figures, FiguresBrought)
    BY DEF StepShape, PreviewMoves
  <2> QED BY <1>0, <1>1, <1>2, <2>1, <2>2, FreshMoves
<1>5. refusal = "insufficient_stock" => FreshIn(cartQ', LinesRead, refusedAt)
  <2>1. ~edit.over => \A d \in LinesBrought : d.at >= refusedAt
    BY <1>2 DEF BroughtAt
  <2>2. Moves(cartQ, cartQ', Lines, LinesBrought)
    BY DEF StepShape, CartMoves
  <2> QED BY <1>0, <1>1, <1>2, <2>1, <2>2, FreshMoves
<1> QED BY <1>0, <1>3, <1>4, <1>5

\* An order is sent over loaded figures, and they stay loaded.
LEMMA OrdersOverFigures ==
  ASSUME CauseInv, FormTypeOK, StepShape
  PROVE  post' # NoPost => post'.at <= shop'.at /\ RQ!Loaded(cartQ') /\ RQ!Loaded(previewQ')
<1> SUFFICES ASSUME post' # NoPost
             PROVE  post'.at <= shop'.at /\ RQ!Loaded(cartQ') /\ RQ!Loaded(previewQ')
  OBVIOUS
<1>1. /\ Lines \in LinesRead /\ Figures \in FiguresRead /\ shop.at \in Nat /\ shop \in Shop
      /\ cartQ \in RQ!Entry(LinesRead) /\ previewQ \in RQ!Entry(FiguresRead)
      /\ LinesBrought \in SUBSET LinesRead /\ FiguresBrought \in SUBSET FiguresRead
  BY ShopAnswers DEF FormTypeOK
<1>2. shop'.at >= shop.at /\ shop'.at \in Nat
  BY DEF StepShape, Onward, Shop
<1>3. post'.at <= shop'.at
  <2>1. CASE SubmitOrder
    BY <1>1, <1>2, <2>1 DEF SubmitOrder
  <2>2. CASE ~SubmitOrder
    <3>1. post # NoPost /\ (post'.at = post.at \/ post'.at = shop.at)
      BY <2>2 DEF StepShape, PostMoves
    <3>2. post.at <= shop.at /\ post.at \in Nat
      BY <3>1 DEF CauseInv, FormTypeOK, Order
    <3> QED BY <1>1, <1>2, <3>1, <3>2
  <2> QED BY <2>1, <2>2
<1>4. RQ!Loaded(cartQ) /\ RQ!Loaded(previewQ)
  <2>1. CASE SubmitOrder
    BY <2>1 DEF SubmitOrder, FormVisible
  <2>2. CASE ~SubmitOrder
    BY <2>2 DEF StepShape, PostMoves, CauseInv
  <2> QED BY <2>1, <2>2
<1>5. RQ!Loaded(cartQ')
  <2>1. Moves(cartQ, cartQ', Lines, LinesBrought)
    BY DEF StepShape, CartMoves
  <2> QED BY <1>1, <1>4, <2>1, MovedEntry
<1>6. RQ!Loaded(previewQ')
  <2>1. Moves(previewQ, previewQ', Figures, FiguresBrought)
    BY DEF StepShape, PreviewMoves
  <2> QED BY <1>1, <1>4, <2>1, MovedEntry
<1> QED BY <1>3, <1>5, <1>6

\* The steps in which no refusal comes or goes, and no page closes.
LEMMA QuietSteps ==
  ASSUME [FormNext]_formVars
  PROVE  \/ Leave \/ SubmitOrder \/ LandPlaced \/ LandRefused \/ LoseOrder
         \/ UNCHANGED <<refusal, refusedAt>> /\ (missed => missed') /\ (onPage => onPage')
<1> DEFINE Quiet == UNCHANGED <<refusal, refusedAt>> /\ (missed => missed') /\ (onPage => onPage')
<1>1. Arrive => Quiet
  BY DEF Arrive, pageVars
<1>2. WindowFocus => Quiet
  BY DEF WindowFocus, pageVars
<1>3. PromoBox \/ SetQuantity => Quiet
  BY DEF PromoBox, SetQuantity, SendEdit, pageVars
<1>4. RefuseOrder \/ PlaceOrder => Quiet
  <2>1. RefuseOrder => UNCHANGED <<onPage, pageVars>>
    BY Zenon DEF RefuseOrder
  <2>2. PlaceOrder => UNCHANGED <<onPage, pageVars>>
    BY Zenon DEF PlaceOrder
  <2> QED BY <2>1, <2>2 DEF pageVars
<1>5. ApplyEdit \/ ReplyEdit \/ LoseEdit => Quiet
  <2>1. ApplyEdit => UNCHANGED <<onPage, pageVars>>
    BY Zenon DEF ApplyEdit
  <2>2. ReplyEdit => UNCHANGED <<onPage, pageVars>>
    BY Zenon DEF ReplyEdit
  <2>3. LoseEdit => UNCHANGED <<onPage, pageVars>>
    BY Zenon DEF LoseEdit
  <2> QED BY <2>1, <2>2, <2>3 DEF pageVars
<1>6. SellOut \/ PromoDies \/ OtherTab => Quiet
  <2>1. SellOut => UNCHANGED <<onPage, pageVars>>
    BY Zenon DEF SellOut
  <2>2. PromoDies => UNCHANGED <<onPage, pageVars>>
    BY Zenon DEF PromoDies
  <2>3. OtherTab => UNCHANGED <<onPage, pageVars>>
    BY Zenon DEF OtherTab
  <2> QED BY <2>1, <2>2, <2>3 DEF pageVars
<1>7. LandEdit => Quiet
  <2> SUFFICES ASSUME LandEdit PROVE Quiet
    OBVIOUS
  <2>1. UNCHANGED <<onPage, refusal, refusedAt>>
    BY DEF LandEdit
  <2>2. missed' = (missed \/ (edit.over /\ refusal # Nothing))
    BY DEF LandEdit
  <2>3. missed => missed'
    BY <2>2, Zenon
  <2> QED BY <2>1, <2>3
<1>8. Read \/ ReadArrives => Quiet
  BY DEF Read, ReadArrives, pageVars
<1>9. ReadFails => Quiet
  <2> SUFFICES ASSUME ReadFails PROVE Quiet
    OBVIOUS
  <2>1. UNCHANGED <<onPage, refusal, refusedAt>>
    BY DEF ReadFails
  <2>2. missed' = (missed \/ refusal # Nothing)
    BY DEF ReadFails
  <2>3. missed => missed'
    BY <2>2, Zenon
  <2> QED BY <2>1, <2>3
<1>10. UNCHANGED formVars => Quiet
  BY DEF formVars
<1> HIDE DEF Quiet
<1>11. \/ Leave \/ SubmitOrder \/ LandPlaced \/ LandRefused \/ LoseOrder \/ Quiet
  BY <1>1, <1>2, <1>3, <1>4, <1>5, <1>6, <1>7, <1>8, <1>9, <1>10 DEF FormNext
<1> QED BY <1>11 DEF Quiet

\* A page that is left shows no refusal and hears of none; what it sends, it hears of.
LEMMA UnheardOffPage ==
  ASSUME CauseInv, FormTypeOK, StepShape, [FormNext]_formVars
  PROVE  ~onPage' => refusal' = Nothing /\ (post' # NoPost => ~post'.heard)
<1> SUFFICES ASSUME ~onPage' PROVE refusal' = Nothing /\ (post' # NoPost => ~post'.heard)
  OBVIOUS
<1>1. CASE Leave
  <2>1. CASE post = NoPost
    BY <1>1, <2>1 DEF Leave, Blank, Unheard
  <2>2. CASE post # NoPost
    <3>1. post \in Order /\ post' = [post EXCEPT !.heard = FALSE]
      BY <1>1, <2>2 DEF Leave, Unheard, FormTypeOK
    <3> QED BY <1>1, <3>1 DEF Leave, Blank, Order
  <2> QED BY <2>1, <2>2
<1>2. CASE LandPlaced
  BY <1>2 DEF LandPlaced, Blank, pageVars, CauseInv
<1>3. CASE LandRefused
  BY <1>3, MarksAreMarks DEF LandRefused, pageVars, CauseInv, NoPost
<1>4. CASE LoseOrder
  BY <1>4 DEF LoseOrder, CauseInv
<1>5. CASE ~(Leave \/ LandPlaced \/ LandRefused \/ LoseOrder)
  <2>1. SubmitOrder => onPage'
    BY DEF SubmitOrder, FormVisible
  <2>2. ~SubmitOrder /\ refusal' = refusal /\ ~onPage
    BY <1>5, <2>1, QuietSteps
  <2> QED BY <2>2 DEF CauseInv, StepShape, PostMoves
<1> QED BY <1>1, <1>2, <1>3, <1>4, <1>5

\* A refusal is shown with the edition that refused; what it names is asked for again, and an
\* edit under way is remembered as such.
LEMMA CauseLands ==
  ASSUME CauseInv, FormTypeOK, StepShape, HonestInv', LandRefused
  PROVE  /\ refusedAt' \in Nat /\ refusedAt' <= shop'.at
         /\ ~missed' /\ refusal' \in {"insufficient_stock", "promo_invalid"} =>
              /\ BroughtAt(refusedAt)'
              /\ refusal' = "insufficient_stock" => FreshIn(cartQ', LinesRead, refusedAt')
              /\ FreshIn(previewQ', FiguresRead, refusedAt')
<1>0. post # NoPost /\ post \in Order /\ shop' = shop /\ shop.at \in Nat
  BY DEF LandRefused, FormTypeOK, NoPost, Shop
<1>1. CASE post.heard
  <2>1. /\ refusal' = post.reason /\ refusedAt' = post.at
        /\ cartQ' = IF "cart" \in RefusalRefreshes(post.reason) THEN Refreshed(cartQ) ELSE cartQ
        /\ previewQ' = IF "preview" \in RefusalRefreshes(post.reason)
                       THEN Refreshed(previewQ) ELSE previewQ
        /\ edit' = IF edit = NoEdit THEN NoEdit ELSE [edit EXCEPT !.over = TRUE]
    BY <1>1 DEF LandRefused
  <2>2. refusal' = "insufficient_stock" => cartQ' = Refreshed(cartQ)
    BY <2>1 DEF RefusalRefreshes
  <2>3. refusal' \in {"insufficient_stock", "promo_invalid"} => previewQ' = Refreshed(previewQ)
    BY <2>1 DEF RefusalRefreshes
  <2>4. /\ RQ!Loaded(cartQ) /\ RQ!Loaded(previewQ) /\ post.at <= shop.at
        /\ cartQ \in RQ!Entry(LinesRead) /\ previewQ \in RQ!Entry(FiguresRead)
    BY <1>0 DEF CauseInv, FormTypeOK
  <2>5. BroughtAt(refusedAt)'
    <3>1. CASE edit = NoEdit
      BY <2>1, <3>1 DEF BroughtAt, LinesBrought, FiguresBrought, NoEdit
    <3>2. CASE edit # NoEdit
      <4>1. edit \in Edit /\ edit' = [edit EXCEPT !.over = TRUE]
        BY <2>1, <3>2 DEF FormTypeOK
      <4>2. edit'.over
        BY <4>1 DEF Edit
      <4> QED BY <4>2 DEF BroughtAt
    <3> QED BY <3>1, <3>2
  <2>6. post.at \in Nat
    BY <1>0 DEF Order
  <2> QED BY <1>0, <2>1, <2>2, <2>3, <2>4, <2>5, <2>6, FreshAsked
<1>2. CASE ~post.heard
  <2>1. UNCHANGED <<refusal, refusedAt>> /\ missed' = missed
    BY <1>2 DEF LandRefused, pageVars
  <2>2. refusedAt' \in Nat /\ refusedAt' <= shop'.at
    BY <1>0, <2>1 DEF CauseInv
  <2> QED BY <2>1, <2>2, CauseStays
<1> QED BY <1>1, <1>2

\* Every step of the checkout page keeps CauseInv.
LEMMA CauseStep == CauseInv /\ [FormNext]_formVars => CauseInv'
<1> SUFFICES ASSUME CauseInv, [FormNext]_formVars PROVE CauseInv'
  OBVIOUS
<1> DEFINE CauseKept == /\ refusedAt' \in Nat /\ refusedAt' <= shop'.at
                        /\ ~missed' /\ refusal' \in {"insufficient_stock", "promo_invalid"} =>
                         /\ BroughtAt(refusedAt)'
                         /\ refusal' = "insufficient_stock" => FreshIn(cartQ', LinesRead, refusedAt')
                         /\ FreshIn(previewQ', FiguresRead, refusedAt')
<1>0. FormTypeOK /\ StepShape /\ HonestInv'
  BY EveryShape, HonestStep DEF CauseInv, HonestInv
<1>1. shop.at \in Nat /\ shop'.at \in Nat /\ shop'.at >= shop.at /\ shop.at >= 0
  BY <1>0 DEF FormTypeOK, StepShape, Onward, Shop
<1>2. ASSUME LandRefused PROVE CauseKept
  BY <1>0, <1>2, CauseLands
<1>3. ASSUME Blank PROVE CauseKept
  <2>1. refusedAt' = 0 /\ refusal' = Nothing
    BY <1>3 DEF Blank
  <2>2. shop'.at >= 0
    BY <1>1
  <2> QED BY <2>1, <2>2, AnswersHaveShape
<1>4. ASSUME LoseOrder, refusal' = "failed" PROVE CauseKept
  <2>1. refusedAt' = refusedAt /\ refusedAt' \in Nat /\ refusedAt' <= shop'.at
    BY <1>1, <1>4 DEF LoseOrder, CauseInv
  <2> QED BY <1>4, <2>1
<1>5. ASSUME UNCHANGED <<refusal, refusedAt>>, missed => missed' PROVE CauseKept
  <2>1. refusedAt' \in Nat /\ refusedAt' <= shop'.at
    BY <1>1, <1>5 DEF CauseInv
  <2> QED BY <1>0, <1>5, <2>1, CauseStays
<1>6. \/ LandRefused
      \/ Blank
      \/ LoseOrder /\ refusal' = "failed"
      \/ UNCHANGED <<refusal, refusedAt>> /\ (missed => missed')
  <2>1. Leave \/ SubmitOrder => Blank
    BY DEF Leave, SubmitOrder
  <2>2. LandPlaced => Blank \/ (UNCHANGED <<refusal, refusedAt>> /\ missed' = missed)
    BY DEF LandPlaced, pageVars
  <2>3. LoseOrder => refusedAt' = refusedAt /\ missed' = missed
                     /\ (refusal' = refusal \/ refusal' = "failed")
    BY DEF LoseOrder
  <2> QED BY <2>1, <2>2, <2>3, QuietSteps
<1>7. CauseKept
  BY <1>2, <1>3, <1>4, <1>5, <1>6
<1>8. post' # NoPost => post'.at <= shop'.at /\ RQ!Loaded(cartQ') /\ RQ!Loaded(previewQ')
  BY <1>0, OrdersOverFigures
<1>9. ~onPage' => refusal' = Nothing /\ (post' # NoPost => ~post'.heard)
  BY <1>0, UnheardOffPage
<1> QED BY <1>0, <1>7, <1>8, <1>9 DEF CauseInv, FreshIn, RQ!Loaded

\* While the page shows why the order was refused, the figures beside it, once loaded, are
\* no older than the refusal (CheckoutPage's onError), but for an edit that was under way.
THEOREM CausesShow == FormSpec => []RefusalShowsItsCause
<1>1. FormInit => CauseInv
  <2> SUFFICES ASSUME FormInit PROVE CauseInv
    OBVIOUS
  <2>1. HonestInv /\ shop.at = 0 /\ refusedAt = 0
    BY HonestStart DEF FormInit
  <2>2. refusal = Nothing /\ post = NoPost /\ refusal \notin {"insufficient_stock", "promo_invalid"}
    BY AnswersHaveShape DEF FormInit
  <2> QED BY <2>1, <2>2 DEF CauseInv
<1>2. CauseInv => RefusalShowsItsCause
  <2> SUFFICES ASSUME CauseInv, onPage, ~missed, refusal \in {"insufficient_stock", "promo_invalid"}
               PROVE  /\ refusal = "insufficient_stock" /\ ~RQ!Fetching(cartQ)
                           => cartQ.data.at >= refusedAt
                      /\ ~RQ!Fetching(previewQ) => previewQ.data.at >= refusedAt
    BY DEF RefusalShowsItsCause
  <2> QED BY DEF CauseInv, FreshIn, RQ!Fetching
<1> QED BY <1>1, <1>2, CauseStep, PTL DEF FormSpec

-----------------------------------------------------------------------------
(* Signing in                                                              *)

Link == [live : BOOLEAN, lock : Slots \cup {Nothing}, spent : Nat]
Call == [op : {"login", "forgot", "reset", "logout", "change"},
         stage : {"sent", "verified", "retired", "locked", "answered"},
         here : BOOLEAN, arg : Nat, read : Nat]

SignTypeOK ==
  /\ password \in Nat /\ started \in Nat /\ cookie \in Nat
  /\ links \in Seq(Link)
  /\ signing \in [Slots -> Call \cup {NoCall}]

\* A reset is about a link that was mailed, and holds it once it has locked it.
Holds(s) ==
  signing[s] # NoCall /\ signing[s].op = "reset" =>
    /\ signing[s].arg \in DOMAIN links
    /\ signing[s].stage = "locked" => links[signing[s].arg].lock = s

\* A held link is live, a live one unspent.
LinkOnce(n) ==
  /\ links[n].lock # Nothing => links[n].live
  /\ links[n].live => links[n].spent = 0
  /\ links[n].spent <= 1

LinkInv == /\ SignTypeOK
           /\ \A s \in Slots : Holds(s)
           /\ \A n \in DOMAIN links : LinkOnce(n)

-----------------------------------------------------------------------------
(* Types *)

\* A free slot is told from a call under way.
LEMMA NoneIsNoCall == NoCall \notin Call
<1> SUFFICES ASSUME NoCall \in Call PROVE FALSE
  OBVIOUS
<1>1. NoCall.op \in {"login", "forgot", "reset", "logout", "change"}
  BY DEF Call
<1> QED BY <1>1 DEF NoCall

\* Where only one request moves, the types of all stay.
LEMMA CallMoves ==
  ASSUME SignTypeOK, NEW s \in Slots, NEW c \in Call \cup {NoCall}
  PROVE  [signing EXCEPT ![s] = c] \in [Slots -> Call \cup {NoCall}]
BY DEF SignTypeOK

\* A call that goes on to its next statement stays a call.
LEMMA MoveType ==
  ASSUME SignTypeOK, NEW s \in Slots, signing[s] # NoCall,
         NEW stage \in {"sent", "verified", "retired", "locked", "answered"}
  PROVE  /\ signing[s] \in Call
         /\ [signing[s] EXCEPT !.stage = stage] \in Call
         /\ Move(s, stage) = [signing EXCEPT ![s] = [signing[s] EXCEPT !.stage = stage]]
         /\ Move(s, stage) \in [Slots -> Call \cup {NoCall}]
BY DEF SignTypeOK, Call, Move

\* Cookies, passwords and session numbers only count.
Counters == password' \in Nat /\ started' \in Nat /\ cookie' \in Nat

\* A request that holds no link may move while the links stay.
LEMMA OtherMoves ==
  ASSUME LinkInv, NEW s \in Slots, NEW c \in Call \cup {NoCall}, Counters,
         c # NoCall /\ c.op = "reset" => c.arg \in DOMAIN links /\ c.stage # "locked",
         links' = links, signing' = [signing EXCEPT ![s] = c]
  PROVE  LinkInv'
<1>1. SignTypeOK'
  BY CallMoves DEF LinkInv, SignTypeOK, Counters
<1>2. ASSUME NEW t \in Slots PROVE Holds(t)'
  <2>1. CASE t = s
    BY <2>1 DEF LinkInv, SignTypeOK, Holds
  <2>2. CASE t # s
    BY <2>2 DEF LinkInv, SignTypeOK, Holds
  <2> QED BY <2>1, <2>2
<1>3. \A n \in DOMAIN links' : LinkOnce(n)'
  BY DEF LinkInv, LinkOnce
<1> QED BY <1>1, <1>2, <1>3 DEF LinkInv

\* A request that is only sent holds no link.
LEMMA SignSubmitStep == LinkInv /\ Submit => LinkInv'
<1> SUFFICES ASSUME LinkInv, Submit PROVE LinkInv'
  OBVIOUS
<1>1. ASSUME NEW op \in {"login", "forgot", "reset", "logout", "change"},
             NEW here \in BOOLEAN, NEW arg \in Nat, Send(op, here, arg),
             op = "reset" => arg \in DOMAIN links
      PROVE  LinkInv'
  <2> DEFINE c == [op |-> op, stage |-> "sent", here |-> here, arg |-> arg, read |-> 0]
  <2>1. PICK s \in Slots \ Calling : signing' = [signing EXCEPT ![s] = c]
    BY <1>1 DEF Send
  <2>2. c \in Call
    BY DEF Call
  <2>3. Counters /\ links' = links
    BY <1>1 DEF Send, Counters, LinkInv, SignTypeOK
  <2>4. c.op = "reset" => c.arg \in DOMAIN links /\ c.stage # "locked"
    BY <1>1
  <2> HIDE DEF c
  <2> QED BY <2>1, <2>2, <2>3, <2>4, OtherMoves
<1>2. links \in Seq(Link) /\ cookie \in Nat
  BY DEF LinkInv, SignTypeOK
<1>3. CASE SubmitLogin
  BY <1>1, <1>3 DEF SubmitLogin
<1>4. CASE LoginElsewhere
  BY <1>1, <1>4 DEF LoginElsewhere
<1>5. CASE SubmitForgot
  BY <1>1, <1>5 DEF SubmitForgot
<1>6. CASE ClickLogout
  BY <1>1, <1>2, <1>6 DEF ClickLogout
<1>7. CASE SubmitChange
  BY <1>1, <1>2, <1>7 DEF SubmitChange
<1>8. ASSUME NEW n \in DOMAIN links, SubmitReset(n) PROVE LinkInv'
  <2>1. n \in Nat
    BY <1>2
  <2> QED BY <1>1, <1>8, <2>1 DEF SubmitReset
<1> QED BY <1>3, <1>4, <1>5, <1>6, <1>7, <1>8 DEF Submit

\* The requests that touch no link.
LEMMA SessionStep ==
  ASSUME LinkInv, NEW s \in Slots,
         VerifyLogin(s) \/ StartSession(s) \/ VerifyChange(s) \/ ChangePassword(s)
           \/ DeleteSession(s) \/ RefuseCall(s) \/ LandCall(s)
  PROVE  LinkInv'
<1>0. SignTypeOK /\ signing[s] # NoCall /\ signing[s] \in Call
  BY DEF LinkInv, SignTypeOK, VerifyLogin, StartSession, VerifyChange, ChangePassword,
         DeleteSession, RefuseCall, LandCall, LandLogin, LandLogout, Is
<1>1. links' = links /\ Counters
  BY <1>0 DEF VerifyLogin, StartSession, VerifyChange, ChangePassword, DeleteSession, RefuseCall,
              LandCall, LandLogin, LandLogout, SignTypeOK, Counters
<1>2. CASE signing' = [signing EXCEPT ![s] = NoCall]
  BY <1>1, <1>2, OtherMoves
<1>3. ASSUME signing[s].op # "reset",
             NEW stage \in {"verified", "answered"}, signing' = Move(s, stage)
      PROVE  LinkInv'
  <2>1. [signing[s] EXCEPT !.stage = stage] \in Call
    BY <1>0, MoveType
  <2>2. signing' = [signing EXCEPT ![s] = [signing[s] EXCEPT !.stage = stage]]
    BY <1>0, <1>3, MoveType
  <2>3. [signing[s] EXCEPT !.stage = stage].op # "reset"
    BY <1>0, <1>3 DEF Call
  <2> QED BY <1>1, <2>1, <2>2, <2>3, OtherMoves
<1>4. CASE VerifyLogin(s)
  <2> DEFINE c == [signing[s] EXCEPT !.stage = "verified", !.read = password]
  <2>1. signing' = [signing EXCEPT ![s] = c] /\ signing[s].op = "login"
    BY <1>0, <1>4 DEF VerifyLogin, Is, SignTypeOK
  <2>2. c \in Call /\ c.op # "reset"
    BY <1>0, <2>1 DEF Call, SignTypeOK
  <2> HIDE DEF c
  <2> QED BY <1>1, <2>1, <2>2, OtherMoves
<1>5. CASE StartSession(s)
  BY <1>2, <1>3, <1>5 DEF StartSession, Is
<1>6. CASE VerifyChange(s)
  BY <1>2, <1>3, <1>6 DEF VerifyChange, Is
<1>7. CASE DeleteSession(s)
  BY <1>2, <1>3, <1>7 DEF DeleteSession, Is
<1>8. CASE ChangePassword(s) \/ RefuseCall(s) \/ LandCall(s)
  BY <1>2, <1>8 DEF ChangePassword, RefuseCall, LandCall
<1> QED BY <1>4, <1>5, <1>6, <1>7, <1>8

-----------------------------------------------------------------------------
(* The steps that write links *)

\* A held link is not retired: the statement waits for it (RetireLinks).
LEMMA RetireStep ==
  ASSUME LinkInv, NEW s \in Slots, RetireLinks(s)
  PROVE  LinkInv'
<1>0. SignTypeOK /\ signing[s] # NoCall /\ signing[s].op = "forgot"
  BY DEF RetireLinks, Is, LinkInv
<1>1. ASSUME NEW n \in DOMAIN links PROVE [links[n] EXCEPT !.live = FALSE] \in Link
  <2>1. links[n] \in Link
    BY <1>0 DEF SignTypeOK
  <2> QED BY <2>1 DEF Link
<1>2. links' = [n \in 1..Len(links) |-> [links[n] EXCEPT !.live = FALSE]]
  BY <1>0 DEF RetireLinks, SignTypeOK
<1>3. links' \in Seq(Link) /\ DOMAIN links' = DOMAIN links
  <2>1. Len(links) \in Nat /\ DOMAIN links = 1..Len(links)
    BY <1>0 DEF SignTypeOK
  <2>2. links' \in [1..Len(links) -> Link]
    BY <1>1, <1>2, <2>1
  <2> QED BY <2>1, <2>2, SeqDef
<1>4. signing' = [signing EXCEPT ![s] = [signing[s] EXCEPT !.stage = "retired"]]
  BY <1>0, MoveType DEF RetireLinks
<1>5. signing' \in [Slots -> Call \cup {NoCall}]
  BY <1>0, MoveType DEF RetireLinks
<1>6. ASSUME NEW n \in DOMAIN links' PROVE LinkOnce(n)'
  <2>1. links[n] \in Link /\ links'[n] = [links[n] EXCEPT !.live = FALSE] /\ links[n].lock = Nothing
    BY <1>0, <1>2, <1>3 DEF RetireLinks, SignTypeOK
  <2>2. links'[n].live = FALSE /\ links'[n].lock = Nothing /\ links'[n].spent = links[n].spent
    BY <2>1 DEF Link
  <2> QED BY <1>3, <2>2 DEF LinkInv, LinkOnce
<1>7. ASSUME NEW t \in Slots PROVE Holds(t)'
  <2>1. CASE t = s
    BY <1>0, <1>4, <2>1 DEF SignTypeOK, Call, Holds
  <2>2. CASE t # s
    <3>1. signing'[t] = signing[t]
      BY <1>0, <1>4, <2>2 DEF SignTypeOK
    <3>2. ~(signing[t] # NoCall /\ signing[t].op = "reset" /\ signing[t].stage = "locked")
      BY NothingIsNoSlot DEF LinkInv, Holds, RetireLinks
    <3> QED BY <1>3, <3>1, <3>2 DEF LinkInv, Holds
  <2> QED BY <2>1, <2>2
<1>8. Counters
  BY <1>0 DEF RetireLinks, SignTypeOK, Counters
<1> QED BY <1>3, <1>5, <1>6, <1>7, <1>8 DEF LinkInv, SignTypeOK, Counters

\* A new link is live, unheld and unspent.
LEMMA InsertStep == ASSUME LinkInv, NEW s \in Slots, InsertLink(s) PROVE LinkInv'
<1> DEFINE new == [live |-> TRUE, lock |-> Nothing, spent |-> 0]
<1>0. SignTypeOK /\ links' = Append(links, new) /\ signing' = [signing EXCEPT ![s] = NoCall]
  BY DEF InsertLink, LinkInv
<1>1. new \in Link
  BY DEF Link
<1>2. /\ links' \in Seq(Link)
      /\ DOMAIN links' = DOMAIN links \cup {Len(links) + 1}
      /\ links'[Len(links) + 1] = new
      /\ \A n \in DOMAIN links : links'[n] = links[n]
  BY <1>0, <1>1 DEF SignTypeOK
<1>3. \A n \in DOMAIN links' : LinkOnce(n)'
  BY <1>2 DEF LinkInv, LinkOnce
<1>4. \A t \in Slots : Holds(t)'
  BY <1>0, <1>2 DEF LinkInv, Holds, SignTypeOK
<1>5. Counters /\ signing' \in [Slots -> Call \cup {NoCall}]
  BY <1>0 DEF InsertLink, SignTypeOK, Counters
<1> QED BY <1>2, <1>3, <1>4, <1>5 DEF LinkInv, SignTypeOK, Counters

\* Only one request holds a link, and it was unspent when it was locked (LockLink).
LEMMA LockStep ==
  ASSUME LinkInv, NEW s \in Slots, LockLink(s)
  PROVE  LinkInv'
<1> DEFINE n == signing[s].arg
<1>0. /\ SignTypeOK /\ signing[s] # NoCall /\ signing[s].op = "reset" /\ signing[s].stage = "sent"
      /\ n \in DOMAIN links /\ links[n].lock = Nothing /\ links[n] \in Link
  BY DEF LockLink, Is, LinkInv, Holds, SignTypeOK
<1>1. Counters
  BY <1>0 DEF LockLink, SignTypeOK, Counters
<1>2. CASE ~links[n].live
  BY <1>0, <1>1, <1>2, OtherMoves DEF LockLink
<1>3. CASE links[n].live
  <2> DEFINE c == [signing[s] EXCEPT !.stage = "locked"]
             held == [links[n] EXCEPT !.lock = s]
  <2>1. links' = [links EXCEPT ![n] = held] /\ signing' = [signing EXCEPT ![s] = c]
    BY <1>0, <1>3, MoveType DEF LockLink
  <2>2. held \in Link /\ held.lock = s /\ held.live = links[n].live /\ held.spent = links[n].spent
    BY <1>0 DEF Link
  <2>3. c \in Call /\ c.op = "reset" /\ c.arg = n /\ c # NoCall
    <3>1. signing[s] \in Call
      BY <1>0 DEF SignTypeOK
    <3>2. c \in Call /\ c.op = "reset" /\ c.arg = n
      BY <1>0, <3>1 DEF Call
    <3> QED BY <3>2, NoneIsNoCall
  <2> HIDE DEF c, held
  <2>4. /\ links' \in Seq(Link) /\ DOMAIN links' = DOMAIN links /\ links'[n] = held
        /\ \A m \in DOMAIN links \ {n} : links'[m] = links[m]
    BY <1>0, <2>1, <2>2 DEF SignTypeOK
  <2>5. signing' \in [Slots -> Call \cup {NoCall}] /\ signing'[s] = c
    BY <1>0, <2>1, <2>3, CallMoves DEF SignTypeOK
  <2>6. ASSUME NEW m \in DOMAIN links' PROVE LinkOnce(m)'
    <3>1. CASE m = n
      <4>1. held.live /\ held.spent = 0
        BY <1>0, <1>3, <2>2 DEF LinkInv, LinkOnce
      <4> QED BY <2>4, <3>1, <4>1 DEF LinkOnce
    <3>2. CASE m # n
      BY <2>4, <3>2 DEF LinkInv, LinkOnce
    <3> QED BY <3>1, <3>2
  <2>7. ASSUME NEW t \in Slots PROVE Holds(t)'
    <3>1. CASE t = s
      BY <1>0, <2>2, <2>3, <2>4, <2>5, <3>1 DEF Holds
    <3>2. CASE t # s
      <4>1. signing'[t] = signing[t]
        BY <1>0, <2>1, <3>2 DEF SignTypeOK
      <4> QED BY <1>0, <2>4, <4>1, NothingIsNoSlot DEF LinkInv, Holds
    <3> QED BY <3>1, <3>2
  <2> QED BY <1>1, <2>4, <2>5, <2>6, <2>7 DEF LinkInv, SignTypeOK, Counters
<1> QED BY <1>2, <1>3

\* The holder spends the link it found unspent (SpendLink).
LEMMA SpendStep ==
  ASSUME LinkInv, NEW s \in Slots, SpendLink(s)
  PROVE  LinkInv'
<1> DEFINE n == signing[s].arg
           gone == [live |-> FALSE, lock |-> Nothing, spent |-> links[n].spent + 1]
<1>0. /\ SignTypeOK /\ signing[s] # NoCall /\ signing[s].op = "reset" /\ signing[s].stage = "locked"
      /\ n \in DOMAIN links /\ links[n].lock = s /\ links[n] \in Link
  BY DEF SpendLink, Is, LinkInv, Holds, SignTypeOK
<1>1. Counters
  BY <1>0 DEF SpendLink, SignTypeOK, Counters
<1>2. links[n].spent = 0
  BY <1>0, NothingIsNoSlot DEF LinkInv, LinkOnce
<1>3. links' = [links EXCEPT ![n] = gone] /\ signing' = [signing EXCEPT ![s] = NoCall]
  BY <1>0 DEF SpendLink
<1>4. gone \in Link /\ gone.lock = Nothing /\ gone.live = FALSE /\ gone.spent = 1
  BY <1>2 DEF Link
<1> HIDE DEF gone
<1>5. /\ links' \in Seq(Link) /\ DOMAIN links' = DOMAIN links /\ links'[n] = gone
      /\ \A m \in DOMAIN links \ {n} : links'[m] = links[m]
  BY <1>0, <1>3, <1>4 DEF SignTypeOK
<1>6. \A m \in DOMAIN links' : LinkOnce(m)'
  BY <1>4, <1>5 DEF LinkInv, LinkOnce
<1>7. ASSUME NEW t \in Slots PROVE Holds(t)'
  <2>1. CASE t = s
    BY <1>0, <1>3, <2>1 DEF SignTypeOK, Holds
  <2>2. CASE t # s
    <3>1. signing'[t] = signing[t]
      BY <1>0, <1>3, <2>2 DEF SignTypeOK
    <3> QED BY <1>0, <1>5, <2>2, <3>1 DEF LinkInv, Holds
  <2> QED BY <2>1, <2>2
<1>8. signing' \in [Slots -> Call \cup {NoCall}]
  BY <1>0, <1>3, CallMoves
<1> QED BY <1>1, <1>5, <1>6, <1>7, <1>8 DEF LinkInv, SignTypeOK, Counters

\* A held link does not expire: its transaction read it live (Expire).
LEMMA ExpireStep == LinkInv /\ Expire => LinkInv'
<1> SUFFICES ASSUME LinkInv, Expire PROVE LinkInv'
  OBVIOUS
<1>0. SignTypeOK /\ signing' = signing /\ Counters
  BY DEF Expire, LinkInv, SignTypeOK, Counters
<1>1. CASE links' = links
  BY <1>0, <1>1 DEF LinkInv, SignTypeOK, Counters, Holds, LinkOnce
<1>2. ASSUME NEW n \in DOMAIN links, links[n].lock = Nothing,
             links' = [links EXCEPT ![n].live = FALSE]
      PROVE  LinkInv'
  <2> DEFINE dead == [links[n] EXCEPT !.live = FALSE]
  <2>1. n \in DOMAIN links /\ links[n] \in Link /\ links' = [links EXCEPT ![n] = dead]
    BY <1>0, <1>2 DEF SignTypeOK
  <2>2. dead \in Link /\ dead.lock = Nothing /\ dead.live = FALSE /\ dead.spent = links[n].spent
    BY <1>2, <2>1 DEF Link
  <2> HIDE DEF dead
  <2>3. /\ links' \in Seq(Link) /\ DOMAIN links' = DOMAIN links /\ links'[n] = dead
        /\ \A m \in DOMAIN links \ {n} : links'[m] = links[m]
    BY <1>0, <2>1, <2>2 DEF SignTypeOK
  <2>4. ASSUME NEW m \in DOMAIN links' PROVE LinkOnce(m)'
    <3>1. CASE m = n
      <4>1. dead.spent <= 1
        BY <2>2 DEF LinkInv, LinkOnce
      <4> QED BY <2>2, <2>3, <3>1, <4>1 DEF LinkOnce
    <3>2. CASE m # n
      BY <2>3, <3>2 DEF LinkInv, LinkOnce
    <3> QED BY <3>1, <3>2
  <2>5. ASSUME NEW t \in Slots PROVE Holds(t)'
    <3>1. Holds(t) /\ signing'[t] = signing[t]
      BY <1>0 DEF LinkInv
    <3> QED BY <1>2, <2>3, <3>1, NothingIsNoSlot DEF Holds
  <2> QED BY <1>0, <2>3, <2>4, <2>5 DEF LinkInv, SignTypeOK, Counters
<1> QED BY <1>1, <1>2 DEF Expire

\* Every step of the sign-in pages keeps LinkInv.
LEMMA LinkStep == LinkInv /\ [SignNext]_signVars => LinkInv'
<1> SUFFICES ASSUME LinkInv, [SignNext]_signVars PROVE LinkInv'
  OBVIOUS
<1>1. CASE ReadMe \/ UNCHANGED signVars
  BY <1>1 DEF ReadMe, signVars, LinkInv, SignTypeOK, Holds, LinkOnce
<1>2. ASSUME NEW s \in Slots,
             \/ RetireLinks(s) \/ InsertLink(s) \/ LockLink(s) \/ SpendLink(s)
             \/ VerifyLogin(s) \/ StartSession(s) \/ VerifyChange(s) \/ ChangePassword(s)
             \/ DeleteSession(s) \/ RefuseCall(s) \/ LandCall(s)
      PROVE  LinkInv'
  BY <1>2, RetireStep, InsertStep, LockStep, SpendStep, SessionStep
<1> QED BY <1>1, <1>2, SignSubmitStep, ExpireStep DEF SignNext

\* However many requests submit the same link, it sets one password (ConsumePasswordReset).
THEOREM LinksAreSingleUse == SignSpec => []SingleUse
<1>1. SignInit => LinkInv
  BY DEF SignInit, LinkInv, SignTypeOK, Holds
<1>2. LinkInv /\ [SignNext]_signVars => LinkInv'
  BY LinkStep
<1>3. LinkInv => SingleUse
  BY DEF LinkInv, LinkOnce, SingleUse
<1> QED BY <1>1, <1>2, <1>3, PTL DEF SignSpec

\* Session rows, numbered from one.
Session == [id : Nat \ {0}, pw : Nat, late : BOOLEAN]
SessionInv == LinkInv /\ sessions \subseteq Session /\ SessionsFollowThePassword

\* Whatever replaces the password ends every session but the one it renews (the DELETE of
\* ConsumePasswordReset and of ChangePassword), and a login that compared an earlier one is late.
LEMMA FollowStep == SessionInv /\ [SignNext]_signVars => SessionInv'
<1> SUFFICES ASSUME SessionInv, [SignNext]_signVars PROVE SessionInv'
  OBVIOUS
<1>0. SignTypeOK /\ LinkInv'
  BY LinkStep DEF SessionInv, LinkInv
<1>1. CASE UNCHANGED <<password, sessions>>
  BY <1>0, <1>1 DEF SessionInv, SessionsFollowThePassword
<1>2. ASSUME NEW s \in Slots, StartSession(s) PROVE SessionInv'
  <2> DEFINE new == [id |-> started + 1, pw |-> signing[s].read,
                     late |-> signing[s].read # password]
  <2>1. signing[s].read \in Nat /\ started + 1 \in Nat \ {0}
    BY <1>0, <1>2 DEF StartSession, Is, SignTypeOK, Call
  <2>2. new \in Session /\ (new.pw = password \/ new.late)
    BY <2>1 DEF Session
  <2>3. sessions' = sessions \cup {new} /\ password' = password
    BY <1>2 DEF StartSession
  <2> HIDE DEF new
  <2> QED BY <1>0, <2>2, <2>3 DEF SessionInv, SessionsFollowThePassword
<1>3. ASSUME NEW s \in Slots, SpendLink(s) PROVE SessionInv'
  <2>1. sessions' = {}
    BY <1>3 DEF SpendLink, Revoked, SessionInv, Session
  <2> QED BY <1>0, <2>1 DEF SessionInv, SessionsFollowThePassword
<1>4. ASSUME NEW s \in Slots, ChangePassword(s) PROVE SessionInv'
  <2>1. /\ password' = password + 1 /\ password' \in Nat
        /\ sessions' = {[x EXCEPT !.pw = password + 1] : x \in Revoked(signing[s].arg)}
    BY <1>0, <1>4 DEF ChangePassword, SignTypeOK
  <2>2. ASSUME NEW y \in sessions' PROVE y \in Session /\ y.pw = password'
    <3>1. PICK x \in sessions : y = [x EXCEPT !.pw = password + 1]
      BY <2>1 DEF Revoked
    <3>2. x \in Session
      BY DEF SessionInv
    <3> QED BY <2>1, <3>1, <3>2 DEF Session
  <2> QED BY <1>0, <2>2 DEF SessionInv, SessionsFollowThePassword
<1>5. CASE sessions' \subseteq sessions /\ password' = password
  BY <1>0, <1>5 DEF SessionInv, SessionsFollowThePassword
<1>6. ASSUME NEW s \in Slots, DeleteSession(s) PROVE SessionInv'
  BY <1>5, <1>6 DEF DeleteSession
<1>7. CASE Expire
  BY <1>5, <1>7 DEF Expire
<1>8. CASE Submit
  BY <1>1, <1>8
  DEF Submit, SubmitLogin, LoginElsewhere, SubmitForgot, SubmitReset, ClickLogout, SubmitChange, Send
<1>9. ASSUME NEW s \in Slots,
             \/ VerifyLogin(s) \/ RetireLinks(s) \/ InsertLink(s) \/ LockLink(s)
             \/ VerifyChange(s) \/ RefuseCall(s) \/ LandCall(s)
      PROVE  SessionInv'
  BY <1>1, <1>9
  DEF VerifyLogin, RetireLinks, InsertLink, LockLink, VerifyChange, RefuseCall, LandCall
<1>10. CASE ReadMe \/ UNCHANGED signVars
  BY <1>1, <1>10 DEF ReadMe, signVars
<1> QED BY <1>2, <1>3, <1>4, <1>6, <1>7, <1>8, <1>9, <1>10 DEF SignNext

\* A session outlives the password it was started with only if its sign-in had compared the
\* password before it was changed, or it is the one a change kept.
THEOREM SessionsFollow == SignSpec => []SessionsFollowThePassword
<1>1. SignInit => SessionInv
  BY DEF SignInit, SessionInv, SessionsFollowThePassword, LinkInv, SignTypeOK, Holds
<1>2. SessionInv => SessionsFollowThePassword
  BY DEF SessionInv
<1> QED BY <1>1, <1>2, FollowStep, PTL DEF SignSpec

-----------------------------------------------------------------------------
(* The address book *)

\* While the address book is open: of two entries, committed or pending, one at most is the
\* default, unless the transaction that has made one of them so is unsetting the other.
Pends(i) == Book!Held(i) /\ draft[i].row = "default"
DefaultInv ==
  at = "addresses" =>
    /\ DOMAIN book = ThreeAddresses /\ DOMAIN draft = ThreeAddresses
    /\ \A i, j \in ThreeAddresses : i # j =>
         /\ ~(book[i] = "default" /\ book[j] = "default")
         /\ ~(Pends(i) /\ Pends(j))
         /\ Pends(i) /\ book[j] = "default" => draft[j].by = draft[i].by

\* A set whose elements are all the same has at most one.
LEMMA AtMostOne ==
  ASSUME NEW T, IsFiniteSet(T), \A i, j \in T : i = j
  PROVE  Cardinality(T) <= 1
<1>1. CASE T = {}
  BY <1>1, FS_EmptySet
<1>2. ASSUME NEW i \in T PROVE Cardinality(T) <= 1
  <2>1. T = {i}
    BY <1>2
  <2> QED BY <2>1, FS_Singleton
<1> QED BY <1>1, <1>2

\* Three addresses are finitely many.
LEMMA ThreeFinite == IsFiniteSet({i1, i2, i3})
<1>1. IsFiniteSet({i1})
  BY FS_Singleton
<1>2. IsFiniteSet({i1} \cup {i2})
  BY <1>1, FS_AddElement
<1>3. IsFiniteSet(({i1} \cup {i2}) \cup {i3})
  BY <1>2, FS_AddElement
<1>4. {i1, i2, i3} = ({i1} \cup {i2}) \cup {i3}
  OBVIOUS
<1> QED BY <1>3, <1>4

\* And the other way round: at most one means all the same.
LEMMA OneOfThree ==
  ASSUME NEW T, T \subseteq {i1, i2, i3}, Cardinality(T) <= 1, NEW i \in T, NEW j \in T
  PROVE  i = j
<1>1. IsFiniteSet({i1, i2, i3})
  BY ThreeFinite
<1>2. IsFiniteSet(T)
  BY <1>1, FS_Subset
<1>3. /\ IsFiniteSet(T \ {i}) /\ Cardinality(T \ {i}) = Cardinality(T) - 1
      /\ Cardinality(T) \in Nat /\ Cardinality(T \ {i}) \in Nat
  BY <1>2, FS_RemoveElement, FS_CardinalityType
<1>4. T \ {i} = {}
  BY <1>3, FS_EmptySet
<1> QED BY <1>4

\* A transaction writes one more row: not the default, or the one that is, or as the index lets it.
LEMMA WriteKeeps ==
  ASSUME DefaultInv, at = "addresses", at' = at, UNCHANGED book,
         NEW s \in Slots, NEW i, NEW row, Book!Write(s, i, row),
         Book!Held(i) => Book!Drafted(s, i),
         \/ row # "default"
         \/ ~Book!Held(i) /\ book[i] = "default"
         \/ ~Book!Contested(s, i) /\ ~Book!Taken(s, i)
  PROVE  DefaultInv'
<1>1. DOMAIN draft' = ThreeAddresses
  BY DEF DefaultInv, Book!Write
<1>2. ASSUME NEW j \in ThreeAddresses
      PROVE  draft'[j] = IF j = i THEN [by |-> s, row |-> row] ELSE draft[j]
  BY DEF DefaultInv, Book!Write
<1>3. s # Nothing
  BY NobodyAsks
<1> QED
  BY <1>1, <1>2, <1>3
     DEF DefaultInv, Pends, Book!Held, Book!Contested, Book!Taken, Book!Drafted

\* A transaction ends: what it has written is kept, or dropped.
LEMMA SettleKeeps ==
  ASSUME DefaultInv, at = "addresses", at' = at, NEW s \in Slots, draft' = Book!Settled(s),
         \/ UNCHANGED book
         \/ book' = [i \in ThreeAddresses |-> IF Book!Drafted(s, i) THEN draft[i].row ELSE book[i]]
  PROVE  DefaultInv'
<1>1. DOMAIN draft' = ThreeAddresses /\ DOMAIN book' = ThreeAddresses
  BY DEF DefaultInv, Book!Settled
<1>2. ASSUME NEW j \in ThreeAddresses
      PROVE  /\ draft'[j] = IF draft[j].by = s THEN [by |-> Nothing, row |-> "none"] ELSE draft[j]
             /\ book'[j] = book[j] \/ (draft[j].by = s /\ book'[j] = draft[j].row)
             /\ UNCHANGED book \/ (draft[j].by = s => book'[j] = draft[j].row)
  BY DEF DefaultInv, Book!Settled, Book!Drafted, Book!Unheld
<1>3. s # Nothing
  BY NobodyAsks
<1>4. CASE UNCHANGED book
  BY <1>1, <1>2, <1>3, <1>4 DEF DefaultInv, Pends, Book!Held
<1>5. CASE ~UNCHANGED book
  BY <1>1, <1>2, <1>3, <1>5 DEF DefaultInv, Pends, Book!Held
<1> QED BY <1>4, <1>5

\* A request that holds the row it edits is the one the row is drafted by.
Request ==
  [stage : {"sent", "counted", "clearing", "cleared", "held", "written"},
   op : {"create", "update", "delete", "checkout"}, id : ThreeAddresses \cup {Nothing},
   row : Book!Rows, aim : ThreeAddresses \cup {Nothing}]
Calls ==
  \A s \in Slots :
    \/ bookSent[s] = Book!Free
    \/ /\ bookSent[s] \in Request
       /\ bookSent[s].op = "update" => bookSent[s].id \in ThreeAddresses
       /\ bookSent[s].stage = "held" =>
            bookSent[s].op = "update" /\ draft[bookSent[s].id].by = s
RequestInv ==
  at = "addresses" =>
    DOMAIN bookSent = Slots /\ DOMAIN draft = ThreeAddresses /\ Calls

\* One request moves on; what others hold stays theirs.
LEMMA MovesOn ==
  ASSUME RequestInv, at = "addresses", at' = at, NEW s \in Slots, NEW w,
         bookSent' = [bookSent EXCEPT ![s] = w],
         \/ w = Book!Free
         \/ /\ w \in Request
            /\ w.op = "update" => w.id \in ThreeAddresses
            /\ w.stage = "held" => w.op = "update" /\ draft'[w.id].by = s,
         DOMAIN draft' = ThreeAddresses,
         \A i \in ThreeAddresses :
           \A r \in Slots \ {s} : draft[i].by = r => draft'[i].by = r
  PROVE  RequestInv'
<1>1. DOMAIN bookSent' = Slots
  BY DEF RequestInv
<1>2. \A r \in Slots : bookSent'[r] = IF r = s THEN w ELSE bookSent[r]
  BY DEF RequestInv
<1> QED BY <1>1, <1>2 DEF RequestInv, Calls

\* A transaction that ends lets go of its own rows only.
LEMMA EndsAlone ==
  ASSUME RequestInv, at = "addresses", at' = at, NEW s \in Slots, Book!RollBack(s)
  PROVE  RequestInv'
<1>1. DOMAIN draft' = ThreeAddresses
  BY DEF Book!RollBack, Book!Settled
<1>2. ASSUME NEW i \in ThreeAddresses, NEW r \in Slots \ {s}, draft[i].by = r PROVE draft'[i].by = r
  BY <1>2 DEF Book!RollBack, Book!Settled, Book!Drafted
<1>3. bookSent' = [bookSent EXCEPT ![s] = Book!Free]
  BY DEF Book!RollBack, Book!Answer
<1> QED BY <1>1, <1>2, <1>3, MovesOn

\* A transaction that moves on without a row, or with one that was free or its own.
LEMMA Advances ==
  ASSUME RequestInv, at = "addresses", at' = at, NEW s \in Slots, bookSent[s] # Book!Free,
         NEW stage \in {"cleared", "written"}, Book!Advance(s, stage),
         \/ UNCHANGED draft
         \/ \E i, row : Book!Write(s, i, row) /\ (Book!Held(i) => Book!Drafted(s, i))
  PROVE  RequestInv'
<1> DEFINE w == [bookSent[s] EXCEPT !.stage = stage]
<1>1. bookSent[s] \in Request /\ (bookSent[s].op = "update" => bookSent[s].id \in ThreeAddresses)
  BY DEF RequestInv, Calls
<1>2. /\ w \in Request
      /\ w.op = "update" => w.id \in ThreeAddresses
      /\ w.stage # "held"
  BY <1>1 DEF Request
<1>3. DOMAIN draft' = ThreeAddresses
  BY DEF Book!Write, RequestInv
<1>4. ASSUME NEW i \in ThreeAddresses, NEW r \in Slots \ {s}, draft[i].by = r PROVE draft'[i].by = r
  BY <1>4, NobodyAsks DEF Book!Write, Book!Held, Book!Drafted, RequestInv
<1>5. bookSent' = [bookSent EXCEPT ![s] = w]
  BY DEF Book!Advance, RequestInv
<1> HIDE DEF w
<1> QED BY <1>2, <1>3, <1>4, <1>5, MovesOn

\* No other transaction takes a row that one is holding.
LEMMA RequestStep == RequestInv /\ [CustomerNext]_customerVars => RequestInv'
<1> SUFFICES ASSUME RequestInv, [CustomerNext]_customerVars, at = "addresses", at' = at
             PROVE  RequestInv'
  BY DEF CustomerNext, customerVars, RequestInv
<1>1. CASE UNCHANGED <<draft, bookSent>>
  BY <1>1 DEF RequestInv, Calls
<1>2. ASSUME NEW s \in Slots, Book!CountEntries(s) PROVE RequestInv'
  <2> DEFINE w == [bookSent[s] EXCEPT !.stage = "counted",
                     !.row = IF Book!Kept(book) = {} THEN "default" ELSE bookSent[s].row]
  <2>1. /\ bookSent[s] \in Request /\ bookSent[s].op = "create"
    BY <1>2 DEF RequestInv, Calls, Book!CountEntries, Book!At
  <2>2. w \in Request /\ w.op # "update" /\ w.stage # "held"
    BY <2>1 DEF Request, Book!Rows
  <2>3. bookSent' = [bookSent EXCEPT ![s] = w] /\ UNCHANGED draft
    BY <1>2, <2>1 DEF Book!CountEntries, RequestInv
  <2> HIDE DEF w
  <2> QED BY <2>2, <2>3, MovesOn DEF RequestInv
<1>3. ASSUME NEW s \in Slots, Book!FindDefault(s) PROVE RequestInv'
  <2>1. bookSent[s] # Book!Free /\ UNCHANGED draft
    BY <1>3 DEF Book!FindDefault, Book!Busy
  <2>2. ASSUME Book!Advance(s, "cleared") PROVE RequestInv'
    BY <2>1, <2>2, Advances
  <2>3. ASSUME NEW i \in ThreeAddresses,
               bookSent' = [bookSent EXCEPT ![s].stage = "clearing", ![s].aim = i]
        PROVE  RequestInv'
    <3> DEFINE w == [bookSent[s] EXCEPT !.stage = "clearing", !.aim = i]
    <3>1. /\ bookSent[s] \in Request
          /\ bookSent[s].op = "update" => bookSent[s].id \in ThreeAddresses
      BY <2>1 DEF RequestInv, Calls
    <3>2. /\ w \in Request /\ w.stage # "held"
          /\ w.op = "update" => w.id \in ThreeAddresses
      BY <3>1 DEF Request
    <3>3. bookSent' = [bookSent EXCEPT ![s] = w]
      BY <2>3 DEF RequestInv
    <3> HIDE DEF w
    <3> QED BY <2>1, <3>2, <3>3, MovesOn DEF RequestInv
  <2> QED BY <1>3, <2>2, <2>3 DEF Book!FindDefault
<1>4. ASSUME NEW s \in Slots, Book!ClearDefault(s) PROVE RequestInv'
  <2>1. bookSent[s] # Book!Free /\ Book!Advance(s, "cleared")
    BY <1>4 DEF Book!ClearDefault, Book!At
  <2>2. UNCHANGED draft \/ \E i, row : Book!Write(s, i, row) /\ ~Book!Held(i)
    BY <1>4 DEF Book!ClearDefault
  <2> QED BY <2>1, <2>2, Advances
<1>5. ASSUME NEW s \in Slots, Book!HoldEntry(s) PROVE RequestInv'
  <2> DEFINE i == bookSent[s].id
  <2>1. /\ bookSent[s] \in Request /\ bookSent[s].op = "update" /\ i \in ThreeAddresses
        /\ ~Book!Held(i)
    BY <1>5 DEF RequestInv, Calls, Book!HoldEntry, Book!Ready, Book!Busy
  <2>2. ASSUME Book!Write(s, i, book[i]), Book!Advance(s, "held") PROVE RequestInv'
    <3> DEFINE w == [bookSent[s] EXCEPT !.stage = "held"]
    <3>1. w \in Request /\ w.op = "update" /\ w.id = i
      BY <2>1 DEF Request
    <3>2. bookSent' = [bookSent EXCEPT ![s] = w]
      BY <2>2 DEF Book!Advance, RequestInv
    <3>3. DOMAIN draft' = ThreeAddresses /\ draft'[i].by = s
      BY <2>1, <2>2 DEF Book!Write, RequestInv
    <3>4. ASSUME NEW j \in ThreeAddresses, NEW r \in Slots \ {s}, draft[j].by = r PROVE draft'[j].by = r
      BY <2>1, <2>2, <3>4, NobodyAsks DEF Book!Write, Book!Held, RequestInv
    <3> HIDE DEF w, i
    <3> QED BY <2>1, <3>1, <3>2, <3>3, <3>4, MovesOn
  <2> QED BY <1>5, <2>2, EndsAlone DEF Book!HoldEntry
<1>6. ASSUME NEW s \in Slots, Book!PutEntry(s) PROVE RequestInv'
  <2>1. CASE Book!RollBack(s)
    BY <2>1, EndsAlone
  <2>2. CASE ~Book!RollBack(s)
    <3>1. PICK i \in ThreeAddresses :
            /\ Book!Unused(i) \/ (Book!At(s, {"held"}) /\ i = bookSent[s].id)
            /\ \E row : Book!Write(s, i, row)
            /\ bookSent[s] # Book!Free /\ Book!Advance(s, "written")
      BY <1>6, <2>2 DEF Book!PutEntry, Book!Busy
    <3>2. Book!Held(i) => Book!Drafted(s, i)
      BY <3>1 DEF Book!Unused, Book!At, Book!Drafted, RequestInv, Calls
    <3> QED BY <3>1, <3>2, Advances
  <2> QED BY <2>1, <2>2
<1>7. ASSUME NEW s \in Slots, Book!Upsert(s) PROVE RequestInv'
  <2>1. bookSent[s] # Book!Free /\ Book!Advance(s, "written")
    BY <1>7 DEF Book!Upsert, Book!At
  <2>2. \E i, row : Book!Write(s, i, row) /\ ~Book!Held(i)
    BY <1>7 DEF Book!Upsert, Book!Unused
  <2> QED BY <2>1, <2>2, Advances
<1>8. ASSUME NEW s \in Slots, Book!Delete(s) \/ Book!Commit(s) \/ Book!Fail(s) PROVE RequestInv'
  <2>1. ASSUME Book!Answer(s), UNCHANGED draft PROVE RequestInv'
    BY <2>1, MovesOn DEF Book!Answer, RequestInv
  <2> QED BY <1>8, <2>1, EndsAlone DEF Book!Delete, Book!Commit, Book!Fail, Book!RollBack
<1>9. ASSUME NEW op \in {"create", "update", "delete", "checkout"},
             NEW i \in ThreeAddresses \cup {Nothing}, NEW row \in Book!Rows,
             op = "update" => i \in ThreeAddresses, Book!Send(op, i, row)
      PROVE  RequestInv'
  <2> DEFINE w == [stage |-> "sent", op |-> op, id |-> i, row |-> row, aim |-> Nothing]
  <2>1. w \in Request /\ w.stage # "held" /\ (w.op = "update" => w.id \in ThreeAddresses)
    BY <1>9 DEF Request
  <2>2. PICK s \in Slots : bookSent' = [bookSent EXCEPT ![s] = w] /\ UNCHANGED draft
    BY <1>9 DEF Book!Send
  <2> HIDE DEF w
  <2> QED BY <2>1, <2>2, MovesOn DEF RequestInv
<1>10. CASE Book!Create \/ Book!Checkout
  BY <1>9, <1>10 DEF Book!Create, Book!Checkout, Book!Rows
<1>11. ASSUME NEW i \in ThreeAddresses, Book!Update(i) \/ Book!Remove(i) PROVE RequestInv'
  BY <1>9, <1>11 DEF Book!Update, Book!Remove, Book!Rows
<1>12. CASE Book!BookNext
  BY <1>2, <1>3, <1>4, <1>5, <1>6, <1>7, <1>8, <1>10, <1>11, <1>12 DEF Book!BookNext
<1> QED BY <1>1, <1>12 DEF CustomerNext, customerVars, addressing

\* The unique index lets no two entries be the default, committed or about to be.
LEMMA DefaultStep == RequestInv /\ DefaultInv /\ [CustomerNext]_customerVars => DefaultInv'
<1> SUFFICES ASSUME RequestInv, DefaultInv, [CustomerNext]_customerVars, at = "addresses", at' = at
             PROVE  DefaultInv'
  BY DEF CustomerNext, customerVars, DefaultInv
<1>1. CASE UNCHANGED <<book, draft>>
  BY <1>1 DEF DefaultInv, Pends, Book!Held
<1>2. ASSUME NEW s \in Slots, Book!ClearDefault(s) PROVE DefaultInv'
  BY <1>1, <1>2, WriteKeeps DEF Book!ClearDefault
<1>3. ASSUME NEW s \in Slots, Book!HoldEntry(s) PROVE DefaultInv'
  <2> DEFINE i == bookSent[s].id
  <2>1. CASE book[i] = "none"
    BY <1>3, <2>1, SettleKeeps DEF Book!HoldEntry, Book!RollBack
  <2>2. CASE book[i] # "none"
    <3>1. Book!Write(s, i, book[i]) /\ ~Book!Held(i) /\ UNCHANGED book
      BY <1>3, <2>2 DEF Book!HoldEntry
    <3> HIDE DEF i
    <3> QED BY <3>1, WriteKeeps
  <2> QED BY <2>1, <2>2
<1>4. ASSUME NEW s \in Slots, Book!PutEntry(s) PROVE DefaultInv'
  <2>1. UNCHANGED book
    BY <1>4 DEF Book!PutEntry
  <2>2. CASE Book!RollBack(s)
    BY <2>1, <2>2, SettleKeeps DEF Book!RollBack
  <2>3. CASE ~Book!RollBack(s)
    <3> DEFINE row == bookSent[s].row
    <3>1. PICK i \in ThreeAddresses :
            /\ Book!Unused(i) \/ (Book!At(s, {"held"}) /\ i = bookSent[s].id)
            /\ Book!Write(s, i, row)
            /\ row # "default" \/ (~Book!Contested(s, i) /\ ~Book!Taken(s, i))
      BY <1>4, <2>3 DEF Book!PutEntry
    <3>2. Book!Held(i) => Book!Drafted(s, i)
      BY <3>1 DEF Book!Unused, Book!At, Book!Drafted, RequestInv, Calls
    <3> HIDE DEF row
    <3> QED BY <2>1, <3>1, <3>2, WriteKeeps
  <2> QED BY <2>2, <2>3
<1>5. ASSUME NEW s \in Slots, Book!Delete(s) PROVE DefaultInv'
  <2> DEFINE i == bookSent[s].id
  <2>1. CASE book[i] = "none"
    BY <1>5, <2>1, SettleKeeps DEF Book!Delete, Book!RollBack
  <2>2. CASE book[i] # "none"
    <3>1. UNCHANGED draft /\ book' = [book EXCEPT ![i] = "none"]
      BY <1>5, <2>2 DEF Book!Delete
    <3>2. DOMAIN book' = DOMAIN book /\ \A j \in DOMAIN book : book'[j] = "default" => book[j] = "default"
      BY <3>1
    <3> QED BY <3>1, <3>2 DEF DefaultInv, Pends, Book!Held
  <2> QED BY <2>1, <2>2
<1>6. ASSUME NEW s \in Slots, Book!Upsert(s) PROVE DefaultInv'
  BY <1>6, WriteKeeps DEF Book!Upsert, Book!Unused
<1>7. ASSUME NEW s \in Slots, Book!Commit(s) PROVE DefaultInv'
  BY <1>7, SettleKeeps DEF Book!Commit
<1>8. ASSUME NEW s \in Slots, Book!Fail(s) PROVE DefaultInv'
  BY <1>8, SettleKeeps DEF Book!Fail, Book!RollBack
<1>9. ASSUME NEW s \in Slots, Book!CountEntries(s) \/ Book!FindDefault(s) PROVE DefaultInv'
  BY <1>1, <1>9 DEF Book!CountEntries, Book!FindDefault
<1>10. ASSUME NEW i, Book!Create \/ Book!Update(i) \/ Book!Remove(i) \/ Book!Checkout
       PROVE  DefaultInv'
  BY <1>1, <1>10 DEF Book!Create, Book!Update, Book!Remove, Book!Checkout, Book!Send
<1>11. CASE Book!BookNext
  BY <1>2, <1>3, <1>4, <1>5, <1>6, <1>7, <1>8, <1>9, <1>10, <1>11 DEF Book!BookNext
<1> QED BY <1>1, <1>11 DEF CustomerNext, customerVars, addressing

\* At most one address is the default, however the transactions of creations, edits, "make
\* default" and checkouts cross.
THEOREM DefaultIsOne == CustomerSpec => []OneDefault
<1>1. CustomerInit => RequestInv
  BY DEF CustomerInit, Book!BookInit, RequestInv, Calls
<1>2. CustomerInit => DefaultInv
  <2> SUFFICES ASSUME CustomerInit, at = "addresses" PROVE DefaultInv
    BY DEF DefaultInv
  <2> DEFINE T == {i \in ThreeAddresses : book[i] = "default"}
  <2>1. DOMAIN book = ThreeAddresses /\ Cardinality(T) <= 1
    BY DEF CustomerInit, Book!BookInit, Book!Cardinality, Cardinality
  <2>2. T \subseteq {i1, i2, i3}
    BY DEF ThreeAddresses
  <2>3. ASSUME NEW i \in T, NEW j \in T PROVE i = j
    <3> HIDE DEF T
    <3> QED BY <2>1, <2>2, OneOfThree
  <2>4. draft = [i \in ThreeAddresses |-> Book!Unheld]
    BY DEF CustomerInit, Book!BookInit
  <2> QED BY <2>1, <2>3, <2>4 DEF DefaultInv, Pends, Book!Held, Book!Unheld
<1>3. DefaultInv => OneDefault
  <2> SUFFICES ASSUME DefaultInv, at = "addresses" PROVE Book!OneDefault
    BY DEF OneDefault
  <2> DEFINE T == {i \in ThreeAddresses : book[i] = "default"}
  <2>1. T \subseteq {i1, i2, i3} /\ \A i, j \in T : i = j
    BY DEF DefaultInv, ThreeAddresses
  <2>2. Cardinality(T) <= 1
    <3> HIDE DEF T
    <3>1. IsFiniteSet(T)
      BY <2>1, ThreeFinite, FS_Subset
    <3> QED BY <2>1, <3>1, AtMostOne
  <2> QED BY <2>2 DEF Book!OneDefault, Book!Cardinality, Cardinality
<1> QED BY <1>1, <1>2, <1>3, RequestStep, DefaultStep, PTL DEF CustomerSpec

-----------------------------------------------------------------------------
(* The order pages *)

\* An order the shop was faster with does not become pending again; once the page asks for it
\* anew, it learns so.
OrderStatuses == {"pending", "confirmed", "shipped", "delivered", "cancelled"}
TooLateInv ==
  at = "orders" =>
    /\ pane \in {"list", "detail"}
    /\ orders \in Seq(OrderStatuses)
    /\ ordersQ \in RQ!Entry(Seq(OrderStatuses))
    /\ pane = "detail" => Len(orders) = 1
    /\ pane = "list" => cancel = "none"
    /\ cancel \in {"conflict", "tooLate"} => orders[1] # "pending"
    /\ cancel = "tooLate" => RQ!Fetching(ordersQ) \/ ordersQ.data[1] # "pending"

\* The page and the list of orders look at an entry alike.
LEMMA SameEntry ==
  /\ \A q : OrderLists!RQ!Fetching(q) <=> RQ!Fetching(q)
  /\ \A q : OrderLists!RQ!Loaded(q) <=> RQ!Loaded(q)
  /\ \A q : OrderLists!RQ!Ask(q) = RQ!Ask(q)
  /\ \A q : OrderLists!RQ!Invalidate(q) = RQ!Invalidate(q)
  /\ \A q, d : OrderLists!RQ!Store(OrderLists!RQ!Answer(q, d)) = RQ!Store(RQ!Answer(q, d))
BY DEF OrderLists!RQ!Fetching, RQ!Fetching, OrderLists!RQ!Loaded, RQ!Loaded, OrderLists!RQ!Ask,
       RQ!Ask, OrderLists!RQ!Invalidate, RQ!Invalidate, OrderLists!RQ!Mark, RQ!Mark,
       OrderLists!RQ!Store, RQ!Store, OrderLists!RQ!Answer, RQ!Answer

\* Asking and invalidating leave the entry of the orders one, with a fetch under way.
LEMMA OrdersAsked ==
  ASSUME NEW q \in RQ!Entry(Seq(OrderStatuses))
  PROVE  /\ RQ!Ask(q) \in RQ!Entry(Seq(OrderStatuses)) /\ RQ!Fetching(RQ!Ask(q))
         /\ RQ!Invalidate(q) \in RQ!Entry(Seq(OrderStatuses)) /\ RQ!Fetching(RQ!Invalidate(q))
<1> DEFINE Data == Seq(OrderStatuses)
<1>1. q \in RQ!Entry(Data)
  OBVIOUS
<1> HIDE DEF Data
<1>2. /\ RQ!Ask(q) \in RQ!Entry(Data) /\ RQ!Fetching(RQ!Ask(q))
      /\ RQ!Invalidate(q) \in RQ!Entry(Data) /\ RQ!Fetching(RQ!Invalidate(q))
  BY <1>1, EntryMoves
<1> QED BY <1>2 DEF Data

\* Every step of the order pages keeps TooLateInv; a refusal restarts the read it
\* contradicts.
LEMMA TooLateStep == TooLateInv /\ [CustomerNext]_customerVars => TooLateInv'
<1> SUFFICES ASSUME TooLateInv, [CustomerNext]_customerVars, at = "orders", at' = at
             PROVE  TooLateInv'
  BY DEF CustomerNext, customerVars, TooLateInv
<1>0. /\ orders \in Seq(OrderStatuses) /\ ordersQ \in RQ!Entry(Seq(OrderStatuses))
      /\ pane \in {"list", "detail"} /\ (pane = "detail" => Len(orders) = 1)
  BY DEF TooLateInv
<1>1. CASE UNCHANGED <<pane, orders, ordersQ, cancel>>
  BY <1>1 DEF TooLateInv, RQ!Fetching
<1>2. CASE OrderLists!PressCancel
  <2>1. UNCHANGED <<pane, orders, ordersQ>> /\ pane = "detail" /\ cancel' \in {cancel, "sent"}
    BY <1>2 DEF OrderLists!PressCancel, OrderLists!CancelRendered
  <2> QED BY <2>1 DEF TooLateInv, RQ!Fetching
<1>3. CASE OrderLists!CancelOrder
  <2>1. /\ UNCHANGED <<pane, ordersQ>> /\ pane = "detail" /\ cancel = "sent"
        /\ \/ orders' = <<"cancelled">> /\ cancel' = "ok"
           \/ orders' = orders /\ cancel' = "conflict" /\ orders[1] # "pending"
    BY <1>0, <1>3 DEF OrderLists!CancelOrder, TooLateInv
  <2>2. orders' \in Seq(OrderStatuses) /\ Len(orders') = 1
    <3>1. <<"cancelled">> \in Seq(OrderStatuses) /\ Len(<<"cancelled">>) = 1
      BY DEF OrderStatuses
    <3> QED BY <1>0, <2>1, <3>1
  <2> QED BY <1>0, <2>1, <2>2 DEF TooLateInv
<1>4. CASE OrderLists!LandCancel
  <2>1. /\ UNCHANGED <<pane, orders>> /\ ordersQ' = RQ!Invalidate(ordersQ)
        /\ cancel \in {"ok", "conflict"} /\ cancel' \in {"none", "done", "tooLate"}
        /\ cancel' = "tooLate" => cancel = "conflict"
    BY <1>4, SameEntry DEF OrderLists!LandCancel, OrderLists!RefreshOrders
  <2>2. ordersQ' \in RQ!Entry(Seq(OrderStatuses)) /\ RQ!Fetching(ordersQ)'
    BY <1>0, <2>1, OrdersAsked DEF RQ!Fetching
  <2>3. pane = "detail"
    BY <1>0, <2>1 DEF TooLateInv
  <2> QED BY <1>0, <2>1, <2>2, <2>3 DEF TooLateInv
<1>5. CASE OrderLists!CancelFails
  <2>1. UNCHANGED <<pane, orders, ordersQ>> /\ cancel = "sent" /\ cancel' = "failed"
    BY <1>5 DEF OrderLists!CancelFails
  <2> QED BY <1>0, <2>1 DEF TooLateInv
<1>6. ASSUME NEW i \in 1..Len(orders), OrderLists!MoveOrder(i) PROVE TooLateInv'
  <2>1. PICK status \in OrderLists!Following(orders[i]) : orders' = [orders EXCEPT ![i] = status]
    BY <1>6 DEF OrderLists!MoveOrder
  <2>2. status \in OrderStatuses \ {"pending"}
    BY DEF OrderLists!Following, OrderStatuses
  <2>3. /\ orders' \in Seq(OrderStatuses) /\ Len(orders') = Len(orders)
        /\ orders'[1] = "pending" => orders[1] = "pending"
    BY <1>0, <2>1, <2>2
  <2>4. UNCHANGED <<pane, ordersQ, cancel>>
    BY <1>6 DEF OrderLists!MoveOrder, OrderLists!cancelVars
  <2> QED BY <1>0, <2>3, <2>4 DEF TooLateInv, RQ!Fetching
<1>7. CASE OrderLists!PlaceAnother
  <2>1. /\ pane = "list" /\ orders' = <<"pending">> \o orders /\ UNCHANGED <<pane, ordersQ, cancel>>
    BY <1>7 DEF OrderLists!PlaceAnother, OrderLists!cancelVars
  <2>2. orders' \in Seq(OrderStatuses)
    <3>1. <<"pending">> \in Seq(OrderStatuses)
      BY DEF OrderStatuses
    <3> QED BY <1>0, <2>1, <3>1
  <2> QED BY <1>0, <2>1, <2>2 DEF TooLateInv
<1>8. CASE OrderLists!Focus
  <2>1. ordersQ' = RQ!Ask(ordersQ) /\ UNCHANGED <<pane, orders, cancel>>
    BY <1>8, SameEntry DEF OrderLists!Focus, OrderLists!cancelVars
  <2>2. ordersQ' \in RQ!Entry(Seq(OrderStatuses)) /\ RQ!Fetching(ordersQ)'
    BY <1>0, <2>1, OrdersAsked DEF RQ!Fetching
  <2> QED BY <1>0, <2>1, <2>2 DEF TooLateInv
<1>9. CASE OrderLists!Store
  <2>1. ordersQ' = RQ!Store(RQ!Answer(ordersQ, orders)) /\ UNCHANGED <<pane, orders>>
    BY <1>9, SameEntry DEF OrderLists!Store
  <2>2. ordersQ' \in RQ!Entry(Seq(OrderStatuses)) /\ ordersQ'.data = orders
    BY <1>0, <2>1, EntryReads
  <2>3. cancel' \in {cancel, "none"}
    BY <1>9 DEF OrderLists!Store
  <2> QED BY <1>0, <2>1, <2>2, <2>3 DEF TooLateInv
<1>10. CASE OrderLists!OrdersNext
  <2>1. ASSUME NEW f, OrderLists!PickFilter(f) \/ OrderLists!SetPage(f) PROVE TooLateInv'
    BY <1>1, <2>1 DEF OrderLists!PickFilter, OrderLists!SetPage, OrderLists!cancelVars
  <2>2. CASE OrderLists!Disarm
    BY <1>1, <2>2 DEF OrderLists!Disarm
  <2> QED BY <1>2, <1>3, <1>4, <1>5, <1>6, <1>7, <1>8, <1>9, <1>10, <2>1, <2>2
          DEF OrderLists!OrdersNext
<1> QED BY <1>1, <1>10 DEF CustomerNext, customerVars, following

\* Once the page has heard of it, "too late" is never beside a button that still offers to
\* cancel (OrderDetailPage).
THEOREM TooLateIsHeard == CustomerSpec => []TooLateEndsTheOffer
<1>1. CustomerInit => TooLateInv
  <2> SUFFICES ASSUME CustomerInit, at = "orders" PROVE TooLateInv
    BY DEF TooLateInv
  <2>1. /\ pane \in {"list", "detail"} /\ cancel = "none" /\ ordersQ = RQ!Ask(RQ!Fresh)
        /\ orders \in IF pane = "detail" THEN {<<"pending">>} ELSE {<<>>, <<"pending", "pending">>}
    BY SameEntry DEF CustomerInit, OrderLists!OrdersInit, OrderLists!RQ!Fresh, RQ!Fresh
  <2>2. RQ!Fresh \in RQ!Entry(Seq(OrderStatuses))
    BY DEF RQ!Fresh, RQ!Entry
  <2>3. ordersQ \in RQ!Entry(Seq(OrderStatuses))
    BY <2>1, <2>2, OrdersAsked
  <2>4. orders \in Seq(OrderStatuses) /\ (pane = "detail" => Len(orders) = 1)
    <3>1. /\ <<"pending">> \in Seq(OrderStatuses) /\ Len(<<"pending">>) = 1
          /\ <<>> \in Seq(OrderStatuses) /\ <<"pending", "pending">> \in Seq(OrderStatuses)
      BY DEF OrderStatuses
    <3> QED BY <2>1, <3>1
  <2> QED BY <2>1, <2>3, <2>4 DEF TooLateInv
<1>2. TooLateInv => TooLateEndsTheOffer
  BY SameEntry
  DEF TooLateInv, TooLateEndsTheOffer, OrderLists!TooLateEndsTheOffer, OrderLists!CancelRendered,
      OrderLists!Shown
<1> QED BY <1>1, <1>2, TooLateStep, PTL DEF CustomerSpec

-----------------------------------------------------------------------------
(* The basket and its figures *)

\* What an entry is about to show, or shows and no answer is about to replace, is d, unless a
\* change of it has not been heard of yet.
EntryTells(q, d, waits) ==
  /\ q.fetch \notin {Idle, Sent} => q.fetch.got = d \/ waits
  /\ RQ!Loaded(q) /\ ~q.invalid /\ q.fetch \in {Idle, Sent} => q.data = d \/ waits

\* Applied and not landed, or its answer lost and nothing read since: the copies of the cart,
\* or of the figures, may be of before.
CartPends(s) == writes[s].stage \in {"applied", "answered"} /\ writes[s].op # "promo"
CartWaits == unheard.cart \/ \E s \in Slots : CartPends(s)
FiguresPend(s) == writes[s].stage \in {"applied", "answered"}
FiguresWait == unheard.preview \/ \E s \in Slots : FiguresPend(s)

EntryFields == {"data", "fetch", "invalid"}
WriteFields == {"stage", "op", "v", "qty", "from", "lines", "figures"}
BasketShape ==
  /\ basket \in Cart!Lines /\ DOMAIN unheard = {"cart", "preview"}
  /\ DOMAIN shownCart = EntryFields /\ DOMAIN shownPreview = EntryFields
  /\ DOMAIN writes = Slots
  /\ \A s \in Slots : writes[s] = Cart!None \/ DOMAIN writes[s] = WriteFields

CartInv ==
  ~overlap.cart =>
    /\ EntryTells(shownCart, basket, CartWaits)
    /\ \A s \in Slots : writes[s].stage = "answered" /\ writes[s].op = "put" =>
          writes[s].lines = basket \/ \E t \in Slots \ {s} : CartPends(t)

FiguresInv ==
  ~overlap.preview =>
    /\ EntryTells(shownPreview, "current", FiguresWait)
    /\ \A s \in Slots : writes[s].stage = "answered" /\ writes[s].op = "promo" =>
          writes[s].figures = "current" \/ \E t \in Slots \ {s} : FiguresPend(t)

BasketInv == at = "basket" => BasketShape /\ CartInv /\ FiguresInv

\* The basket page looks at its entries as the other pages do.
LEMMA SameCart ==
  /\ \A q : Cart!RQ!Fetching(q) <=> RQ!Fetching(q)
  /\ \A q : Cart!RQ!Loaded(q) <=> RQ!Loaded(q)
  /\ \A q : Cart!RQ!Ask(q) = RQ!Ask(q)
  /\ \A q : Cart!RQ!Mark(q) = RQ!Mark(q)
  /\ \A q : Cart!RQ!Invalidate(q) = RQ!Invalidate(q)
  /\ \A q : Cart!RQ!GiveUp(q) = RQ!GiveUp(q)
  /\ \A q : Cart!RQ!Store(q) = RQ!Store(q)
  /\ \A q, d : Cart!RQ!Answer(q, d) = RQ!Answer(q, d)
  /\ \A q, d : Cart!RQ!Write(q, d) = RQ!Write(q, d)
BY DEF Cart!RQ!Fetching, RQ!Fetching, Cart!RQ!Loaded, RQ!Loaded, Cart!RQ!Ask, RQ!Ask,
       Cart!RQ!Invalidate, RQ!Invalidate, Cart!RQ!Mark, RQ!Mark, Cart!RQ!GiveUp, RQ!GiveUp,
       Cart!RQ!Store, RQ!Store, Cart!RQ!Answer, RQ!Answer, Cart!RQ!Write, RQ!Write

\* Asking, a store and a failed read leave an entry as truthful as it was.
LEMMA TellingKept ==
  ASSUME NEW q, DOMAIN q = EntryFields, NEW d, NEW waits \in BOOLEAN, EntryTells(q, d, waits)
  PROVE  /\ EntryTells(RQ!Ask(q), d, waits)
         /\ q.fetch = Sent => EntryTells(RQ!GiveUp(q), d, waits)
         /\ q.fetch \notin {Idle, Sent} => EntryTells(RQ!Store(q), d, waits)
BY SentIsNotIdle
DEF EntryTells, EntryFields, RQ!Ask, RQ!Answer, RQ!GiveUp, RQ!Store, RQ!Fetching, RQ!Loaded

\* A fresh fetch, a mark with no fetch under way, or the change's own answer make it truthful.
LEMMA TellingMade ==
  ASSUME NEW q, DOMAIN q = EntryFields, NEW d, NEW waits \in BOOLEAN
  PROVE  /\ ~(RQ!Fetching(q) /\ ~RQ!Loaded(q)) => EntryTells(RQ!Invalidate(q), d, waits)
         /\ ~RQ!Fetching(q) => EntryTells(RQ!Mark(q), d, waits)
         /\ ~RQ!Fetching(q) => EntryTells(RQ!Write(q, d), d, waits)
BY SentIsNotIdle
DEF EntryTells, EntryFields, RQ!Invalidate, RQ!Mark, RQ!Write, RQ!Fetching, RQ!Loaded

\* So does an answer read now.
LEMMA TellingAnswered ==
  ASSUME NEW q, DOMAIN q = EntryFields, NEW d, NEW waits \in BOOLEAN, [got |-> d] \notin {Idle, Sent}
  PROVE  EntryTells(RQ!Answer(q, d), d, waits)
<1>1. RQ!Answer(q, d).fetch = [got |-> d]
  BY DEF RQ!Answer, EntryFields
<1> QED BY <1>1 DEF EntryTells

\* None of them changes what an entry is made of.
LEMMA EntryShapes ==
  ASSUME NEW q, DOMAIN q = EntryFields
  PROVE  /\ DOMAIN RQ!Ask(q) = EntryFields /\ DOMAIN RQ!GiveUp(q) = EntryFields
         /\ DOMAIN RQ!Store(q) = EntryFields /\ DOMAIN RQ!Mark(q) = EntryFields
         /\ DOMAIN RQ!Invalidate(q) = EntryFields
         /\ \A d : DOMAIN RQ!Answer(q, d) = EntryFields /\ DOMAIN RQ!Write(q, d) = EntryFields
BY DEF EntryFields, RQ!Ask, RQ!Answer, RQ!GiveUp, RQ!Store, RQ!Invalidate, RQ!Mark, RQ!Write,
       RQ!Fetching, RQ!Loaded

\* A step that applies nothing and lands nothing: the requests applied before are those after.
CallsStay ==
  /\ basket' = basket /\ overlap' = overlap
  /\ DOMAIN unheard' = {"cart", "preview"}
  /\ DOMAIN writes' = Slots
  /\ \A s \in Slots :
       /\ writes'[s] = Cart!None \/ DOMAIN writes'[s] = WriteFields
       /\ \/ /\ writes'[s].stage = writes[s].stage /\ writes'[s].op = writes[s].op
             /\ writes'[s].lines = writes[s].lines /\ writes'[s].figures = writes[s].figures
          \/ /\ writes[s].stage \notin {"applied", "answered"}
             /\ writes'[s].stage \notin {"applied", "answered"}
EntriesStay ==
  /\ DOMAIN shownCart' = EntryFields /\ DOMAIN shownPreview' = EntryFields
  /\ EntryTells(shownCart, basket, CartWaits) => EntryTells(shownCart', basket, CartWaits')
  /\ EntryTells(shownPreview, "current", FiguresWait)
       => EntryTells(shownPreview', "current", FiguresWait')

\* What neither sends, answers nor stores anything keeps BasketInv.
LEMMA BasketQuiet ==
  ASSUME BasketInv, at = "basket", at' = at, CallsStay, EntriesStay
  PROVE  BasketInv'
<1>1. /\ \A s \in Slots : CartPends(s)' <=> CartPends(s)
      /\ \A s \in Slots : FiguresPend(s)' <=> FiguresPend(s)
  BY DEF CallsStay, CartPends, FiguresPend
<1>3. BasketShape'
  BY DEF BasketInv, BasketShape, CallsStay, EntriesStay
<1>4. CartInv'
  <2> SUFFICES ASSUME ~overlap.cart PROVE CartInv'
    BY DEF CartInv, CallsStay
  <2>1. EntryTells(shownCart, basket, CartWaits)'
    <3>1. EntryTells(shownCart', basket, CartWaits')
      BY DEF BasketInv, CartInv, EntriesStay
    <3> QED BY <3>1 DEF CallsStay, EntryTells, RQ!Loaded
  <2>2. ASSUME NEW s \in Slots, (writes[s].stage = "answered" /\ writes[s].op = "put")'
        PROVE  (writes[s].lines = basket \/ \E t \in Slots \ {s} : CartPends(t))'
    <3>1. writes[s].stage = "answered" /\ writes[s].op = "put" /\ writes'[s].lines = writes[s].lines
      BY <2>2 DEF CallsStay
    <3>2. writes[s].lines = basket \/ \E t \in Slots \ {s} : CartPends(t)
      BY <3>1 DEF BasketInv, CartInv
    <3> QED BY <1>1, <3>1, <3>2 DEF CallsStay
  <2> QED BY <2>1, <2>2 DEF CartInv
<1>5. FiguresInv'
  <2> SUFFICES ASSUME ~overlap.preview PROVE FiguresInv'
    BY DEF FiguresInv, CallsStay
  <2>1. EntryTells(shownPreview, "current", FiguresWait)'
    <3>1. EntryTells(shownPreview', "current", FiguresWait')
      BY DEF BasketInv, FiguresInv, EntriesStay
    <3> QED BY <3>1 DEF EntryTells, RQ!Loaded
  <2>2. ASSUME NEW s \in Slots, (writes[s].stage = "answered" /\ writes[s].op = "promo")'
        PROVE  (writes[s].figures = "current" \/ \E t \in Slots \ {s} : FiguresPend(t))'
    <3>1. /\ writes[s].stage = "answered" /\ writes[s].op = "promo"
          /\ writes'[s].figures = writes[s].figures
      BY <2>2 DEF CallsStay
    <3>2. writes[s].figures = "current" \/ \E t \in Slots \ {s} : FiguresPend(t)
      BY <3>1 DEF BasketInv, FiguresInv
    <3> QED BY <1>1, <3>1, <3>2
  <2> QED BY <2>1, <2>2 DEF FiguresInv
<1> QED BY <1>3, <1>4, <1>5 DEF BasketInv

\* Opening a page, the focus and the reads keep both entries as they tell, and every request.
BasketReads ==
  \/ \E to \in Cart!Screens : Cart!Visit(to)
  \/ Cart!Focus
  \/ Cart!ReadCart
  \/ Cart!StoreCart
  \/ Cart!CartUnavailable
  \/ Cart!ReadPreview
  \/ Cart!StorePreview

\* Reads, visits and window focus are of that kind.
LEMMA ReadsAreQuiet ==
  ASSUME BasketInv, at = "basket", at' = at, BasketReads
  PROVE  BasketInv'
<1> USE SameCart
<1>0. BasketShape
  BY DEF BasketInv
<1>1. CallsStay
  <2>1. CASE \E to \in Cart!Screens : Cart!Visit(to)
    <3>1. /\ writes' = [s \in Slots |-> Cart!Orphan(writes[s])]
          /\ UNCHANGED <<basket, overlap>>
      BY <2>1 DEF Cart!Visit
    <3>2. ASSUME NEW s \in Slots
          PROVE  /\ writes'[s] = Cart!None \/ DOMAIN writes'[s] = WriteFields
                 /\ writes'[s].stage = writes[s].stage /\ writes'[s].op = writes[s].op
                 /\ writes'[s].lines = writes[s].lines /\ writes'[s].figures = writes[s].figures
      BY <1>0, <3>1 DEF Cart!Orphan, BasketShape, WriteFields
    <3>3. unheard' = unheard
      BY <2>1 DEF Cart!Visit
    <3> QED BY <1>0, <3>1, <3>2, <3>3 DEF CallsStay, BasketShape
  <2>2. CASE /\ UNCHANGED <<basket, writes, overlap>>
             /\ unheard' \in {unheard, [unheard EXCEPT !.cart = FALSE],
                              [unheard EXCEPT !.preview = FALSE]}
    <3>1. DOMAIN unheard' = {"cart", "preview"}
      BY <1>0, <2>2 DEF BasketShape
    <3> QED BY <1>0, <2>2, <3>1 DEF CallsStay, BasketShape
  <2> QED BY <2>1, <2>2 DEF BasketReads, Cart!Focus, Cart!ReadCart, Cart!StoreCart,
             Cart!CartUnavailable, Cart!ReadPreview, Cart!StorePreview
\* A read is answered from the basket as it is; anything else leaves what is unheard so.
<1>2. /\ \/ shownCart' = RQ!Answer(shownCart, basket)
         \/ /\ unheard'.cart = unheard.cart
            /\ \/ shownCart' \in {shownCart, RQ!Ask(shownCart)}
               \/ shownCart.fetch = Sent /\ shownCart' = RQ!GiveUp(shownCart)
               \/ shownCart.fetch \notin {Idle, Sent} /\ shownCart' = RQ!Store(shownCart)
      /\ \/ shownPreview' = RQ!Answer(shownPreview, "current")
         \/ /\ unheard'.preview = unheard.preview
            /\ \/ shownPreview' \in {shownPreview, RQ!Ask(shownPreview)}
               \/ shownPreview.fetch \notin {Idle, Sent} /\ shownPreview' = RQ!Store(shownPreview)
  <2>1. CASE \E to \in Cart!Screens : Cart!Visit(to)
    BY <2>1 DEF Cart!Visit
  <2>2. CASE Cart!Focus
    BY <2>2 DEF Cart!Focus
  <2>3. CASE Cart!ReadCart \/ Cart!StoreCart \/ Cart!CartUnavailable
    BY <1>0, <2>3 DEF Cart!ReadCart, Cart!StoreCart, Cart!CartUnavailable, BasketShape
  <2>4. CASE Cart!ReadPreview \/ Cart!StorePreview
    BY <1>0, <2>4 DEF Cart!ReadPreview, Cart!StorePreview, BasketShape
  <2> QED BY <2>1, <2>2, <2>3, <2>4 DEF BasketReads
<1>3. EntriesStay
  <2>1. /\ CartWaits \in BOOLEAN /\ CartWaits' \in BOOLEAN
        /\ FiguresWait \in BOOLEAN /\ FiguresWait' \in BOOLEAN
    BY DEF CartWaits, FiguresWait
  <2>2. DOMAIN shownCart = EntryFields /\ DOMAIN shownPreview = EntryFields
    BY <1>0 DEF BasketShape
  <2>3. DOMAIN shownCart' = EntryFields /\ DOMAIN shownPreview' = EntryFields
    <3>1. ASSUME NEW q \in {shownCart, shownPreview}, NEW d
          PROVE  /\ DOMAIN RQ!Ask(q) = EntryFields /\ DOMAIN RQ!GiveUp(q) = EntryFields
                 /\ DOMAIN RQ!Store(q) = EntryFields /\ DOMAIN RQ!Answer(q, d) = EntryFields
      <4>1. DOMAIN q = EntryFields
        BY <2>2
      <4> QED BY <4>1, EntryShapes
    <3>2. DOMAIN shownCart' = EntryFields
      BY <1>2, <2>2, <3>1
    <3>3. DOMAIN shownPreview' = EntryFields
      BY <1>2, <2>2, <3>1
    <3> QED BY <3>2, <3>3
  <2>4. /\ \A s \in Slots : CartPends(s)' <=> CartPends(s)
        /\ \A s \in Slots : FiguresPend(s)' <=> FiguresPend(s)
    BY <1>1 DEF CallsStay, CartPends, FiguresPend
  <2>5. ASSUME EntryTells(shownCart, basket, CartWaits)
        PROVE  EntryTells(shownCart', basket, CartWaits')
    <3>1. CASE shownCart' = RQ!Answer(shownCart, basket)
      <4>1. [got |-> basket] \notin {Idle, Sent}
        BY <1>0, AnswersAreNoMarks DEF BasketShape
      <4> QED BY <2>1, <2>2, <3>1, <4>1, TellingAnswered
    <3>2. CASE shownCart' # RQ!Answer(shownCart, basket)
      <4>1. CartWaits' <=> CartWaits
        BY <1>2, <2>4, <3>2 DEF CartWaits
      <4>2. EntryTells(shownCart', basket, CartWaits)
        BY <1>2, <2>1, <2>2, <2>5, <3>2, TellingKept
      <4> QED BY <4>1, <4>2 DEF EntryTells
    <3> QED BY <3>1, <3>2
  <2>6. ASSUME EntryTells(shownPreview, "current", FiguresWait)
        PROVE  EntryTells(shownPreview', "current", FiguresWait')
    <3>1. CASE shownPreview' = RQ!Answer(shownPreview, "current")
      <4>1. [got |-> "current"] \notin {Idle, Sent}
        BY AnswersAreNoMarks
      <4> QED BY <2>1, <2>2, <3>1, <4>1, TellingAnswered
    <3>2. CASE shownPreview' # RQ!Answer(shownPreview, "current")
      <4>1. FiguresWait' <=> FiguresWait
        BY <1>2, <2>4, <3>2 DEF FiguresWait
      <4>2. EntryTells(shownPreview', "current", FiguresWait)
        BY <1>2, <2>1, <2>2, <2>6, <3>2, TellingKept
      <4> QED BY <4>1, <4>2 DEF EntryTells
    <3> QED BY <3>1, <3>2
  <2> QED BY <2>3, <2>5, <2>6 DEF EntriesStay
<1> QED BY <1>1, <1>3, BasketQuiet

\* A click puts a request in an empty slot; a refusal empties the slot of one not applied yet.
LEMMA ClicksAreQuiet ==
  ASSUME BasketInv, at = "basket", at' = at,
         Cart!Click \/ \E s \in Slots : Cart!Refuse(s)
  PROVE  BasketInv'
<1>0. BasketShape
  BY DEF BasketInv
<1>1. CallsStay /\ UNCHANGED <<shownCart, shownPreview, unheard>>
  <2>1. CASE Cart!Click
    <3>1. PICK op, v, qty, from : Cart!SendWrite(op, v, qty, from)
      BY <2>1 DEF Cart!Click, Cart!QuickAdd, Cart!BuyBox, Cart!Step, Cart!RemoveLine,
                  Cart!SaveForLater, Cart!Upsell, Cart!Promo
    <3>2. PICK s \in Slots \ Cart!Busy :
            writes' = [writes EXCEPT ![s] =
              [stage |-> "sent", op |-> op, v |-> v, qty |-> qty, from |-> from,
               lines |-> Nothing, figures |-> Nothing]]
      BY <3>1 DEF Cart!SendWrite
    <3>3. writes[s] = Cart!None
      BY <3>2 DEF Cart!Busy
    <3>4. UNCHANGED <<shownCart, shownPreview, basket, overlap, unheard>>
      BY <3>1 DEF Cart!SendWrite
    <3>5. DOMAIN writes' = Slots /\ \A t \in Slots \ {s} : writes'[t] = writes[t]
      BY <1>0, <3>2 DEF BasketShape
    <3>6. DOMAIN writes'[s] = WriteFields /\ writes'[s].stage = "sent"
      BY <1>0, <3>2 DEF BasketShape, WriteFields
    <3>7. writes[s].stage = "none"
      BY <3>3 DEF Cart!None
    <3> QED BY <1>0, <3>4, <3>5, <3>6, <3>7 DEF CallsStay, BasketShape
  <2>2. ASSUME NEW s \in Slots, Cart!Refuse(s)
        PROVE  CallsStay /\ UNCHANGED <<shownCart, shownPreview, unheard>>
    <3>1. /\ writes[s].stage = "sent" /\ writes' = [writes EXCEPT ![s] = Cart!None]
          /\ UNCHANGED <<shownCart, shownPreview, basket, overlap, unheard>>
      BY <2>2 DEF Cart!Refuse
    <3>2. writes'[s] = Cart!None /\ writes'[s].stage = "none"
      BY <1>0, <3>1 DEF BasketShape, Cart!None
    <3>3. DOMAIN writes' = Slots /\ \A t \in Slots \ {s} : writes'[t] = writes[t]
      BY <1>0, <3>1 DEF BasketShape
    <3> QED BY <1>0, <3>1, <3>2, <3>3 DEF CallsStay, BasketShape
  <2> QED BY <2>1, <2>2
<1>2. /\ \A s \in Slots : CartPends(s)' <=> CartPends(s)
      /\ \A s \in Slots : FiguresPend(s)' <=> FiguresPend(s)
  BY <1>1 DEF CallsStay, CartPends, FiguresPend
<1>3. (CartWaits' <=> CartWaits) /\ (FiguresWait' <=> FiguresWait)
  BY <1>1, <1>2 DEF CartWaits, FiguresWait
<1>4. EntriesStay
  BY <1>0, <1>1, <1>3 DEF EntriesStay, BasketShape, EntryTells
<1> QED BY <1>1, <1>4, BasketQuiet

\* A change of the basket is pending from its statement on; one of the code leaves the lines.
LEMMA ApplyPends ==
  ASSUME BasketInv, at = "basket", at' = at, NEW s \in Slots, Cart!Apply(s)
  PROVE  BasketInv'
<1>0. BasketShape
  BY DEF BasketInv
<1>1. /\ writes[s] # Cart!None /\ writes[s].stage = "sent" /\ shownCart' = shownCart
      /\ overlap' = overlap /\ unheard' = unheard
      /\ shownPreview' = Cart!OutdatedEntry(shownPreview)
      /\ writes[s].op \notin {"put", "delete", "later"} => basket' = basket
  BY DEF Cart!Apply
<1>2. /\ DOMAIN writes' = Slots
      /\ writes'[s].stage \in {"applied", "answered"}
      /\ writes'[s].stage = "answered" => writes[s].op \in {"delete", "later"}
      /\ \A t \in Slots : /\ writes'[t] = Cart!None \/ DOMAIN writes'[t] = WriteFields
                          /\ writes'[t].op = writes[t].op /\ writes'[t].lines = writes[t].lines
                          /\ t # s => writes'[t].stage = writes[t].stage
  <2> DEFINE older == [x \in Slots |-> IF writes[x] # Cart!None
                         THEN [writes[x] EXCEPT !.figures = Cart!Outdated(@)] ELSE writes[x]]
             next == IF writes[s].op \in {"delete", "later"} THEN "answered" ELSE "applied"
  <2>1. writes' = [older EXCEPT ![s].stage = next]
    BY DEF Cart!Apply
  <2>2. \A t \in Slots : /\ older[t] = Cart!None \/ DOMAIN older[t] = WriteFields
                         /\ older[t].op = writes[t].op /\ older[t].lines = writes[t].lines
                         /\ older[t].stage = writes[t].stage
    BY <1>0 DEF BasketShape, WriteFields
  <2>3. DOMAIN older = Slots /\ DOMAIN older[s] = WriteFields
    BY <1>0, <1>1 DEF BasketShape, WriteFields
  <2> HIDE DEF older, next
  <2>4. DOMAIN writes' = Slots /\ \A t \in Slots \ {s} : writes'[t] = older[t]
    BY <2>1, <2>3
  <2>5. writes'[s] = [older[s] EXCEPT !.stage = next]
    BY <2>1, <2>3
  <2>6. /\ DOMAIN writes'[s] = WriteFields /\ writes'[s].stage = next
        /\ writes'[s].op = older[s].op /\ writes'[s].lines = older[s].lines
    BY <2>3, <2>5 DEF WriteFields
  <2> QED BY <2>2, <2>4, <2>6 DEF next
<1>3. BasketShape'
  <2>1. DOMAIN shownPreview' = EntryFields
    BY <1>0, <1>1 DEF Cart!OutdatedEntry, BasketShape
  <2>2. basket' \in Cart!Lines
    <3>1. \/ writes[s].op = "put" /\ basket' = [basket EXCEPT ![writes[s].v] = writes[s].qty]
          \/ basket' = [basket EXCEPT ![writes[s].v] = 0]
          \/ basket' = basket
      BY DEF Cart!Apply
    <3>2. writes[s].op = "put" => writes[s].qty \in 0..MaxQty
      BY DEF Cart!Apply, Cart!Valid
    <3>3. DOMAIN basket = Variants /\ \A v \in Variants : basket[v] \in 0..MaxQty
      BY <1>0 DEF BasketShape, Cart!Lines
    <3>4. 0 \in 0..MaxQty
      BY QuantitiesAreNumbers
    <3> QED BY <1>0, <3>1, <3>2, <3>3, <3>4 DEF BasketShape, Cart!Lines
  <2> QED BY <1>0, <1>1, <1>2, <2>1, <2>2 DEF BasketShape
<1>4. CartInv'
  <2> SUFFICES ASSUME ~overlap.cart PROVE CartInv'
    BY <1>1 DEF CartInv
  <2>1. EntryTells(shownCart, basket, CartWaits) /\ CartInv
    BY DEF BasketInv, CartInv
  <2>2. CASE writes[s].op # "promo"
    <3>1. CartPends(s)'
      BY <1>2, <2>2 DEF CartPends
    <3>2. CartWaits'
      BY <3>1 DEF CartWaits
    <3>3. EntryTells(shownCart, basket, CartWaits)'
      BY <3>2 DEF EntryTells
    <3>4. ASSUME NEW t \in Slots, (writes[t].stage = "answered" /\ writes[t].op = "put")'
          PROVE  (writes[t].lines = basket \/ \E x \in Slots \ {t} : CartPends(x))'
      <4>1. t # s
        BY <1>2, <3>4
      <4> QED BY <3>1, <4>1
    <3> QED BY <3>3, <3>4 DEF CartInv
  <2>3. CASE writes[s].op = "promo"
    <3>1. basket' = basket
      BY <1>1, <2>3
    <3>2. \A t \in Slots : CartPends(t)' <=> CartPends(t)
      BY <1>2, <2>3 DEF CartPends
    <3>3. CartWaits' <=> CartWaits
      BY <1>1, <3>2 DEF CartWaits
    <3>4. EntryTells(shownCart, basket, CartWaits)'
      BY <1>1, <2>1, <3>1, <3>3 DEF EntryTells, RQ!Loaded
    <3>5. ASSUME NEW t \in Slots, (writes[t].stage = "answered" /\ writes[t].op = "put")'
          PROVE  (writes[t].lines = basket \/ \E x \in Slots \ {t} : CartPends(x))'
      <4>1. t # s /\ writes[t].stage = "answered" /\ writes[t].op = "put"
        BY <1>2, <3>5
      <4>2. writes[t].lines = basket \/ \E x \in Slots \ {t} : CartPends(x)
        BY <2>1, <4>1 DEF CartInv
      <4> QED BY <1>2, <3>1, <3>2, <4>2
    <3> QED BY <3>4, <3>5 DEF CartInv
  <2> QED BY <2>2, <2>3
<1>5. FiguresInv'
  <2>1. FiguresPend(s)'
    BY <1>2 DEF FiguresPend
  <2>2. FiguresWait'
    BY <2>1 DEF FiguresWait
  <2>3. EntryTells(shownPreview, "current", FiguresWait)'
    BY <2>2 DEF EntryTells
  <2>4. ASSUME NEW t \in Slots, (writes[t].stage = "answered" /\ writes[t].op = "promo")'
        PROVE  \E x \in Slots \ {t} : FiguresPend(x)'
    <3>1. t # s
      BY <1>2, <2>4
    <3> QED BY <2>1, <3>1
  <2> QED BY <2>3, <2>4 DEF FiguresInv
<1> QED BY <1>3, <1>4, <1>5 DEF BasketInv

\* An answer is read from the basket as it is now.
LEMMA ReplyReads ==
  ASSUME BasketInv, at = "basket", at' = at, NEW s \in Slots, Cart!Reply(s)
  PROVE  BasketInv'
<1>0. BasketShape
  BY DEF BasketInv
<1>1. /\ writes[s] # Cart!None /\ writes[s].stage = "applied"
      /\ UNCHANGED <<shownCart, shownPreview, basket, overlap, unheard>>
  BY DEF Cart!Reply
<1>2. /\ DOMAIN writes' = Slots
      /\ \A t \in Slots \ {s} : writes'[t] = writes[t]
      /\ DOMAIN writes'[s] = WriteFields
      /\ writes'[s].stage = "answered" /\ writes'[s].op = writes[s].op
      /\ writes[s].op = "put" => writes'[s].lines = basket
      /\ writes[s].op # "put" => writes'[s].figures = "current"
  <2>1. CASE writes[s].op = "put"
    <3>1. writes' = [writes EXCEPT ![s] = [[@ EXCEPT !.stage = "answered"] EXCEPT !.lines = basket]]
      BY <1>0, <2>1 DEF Cart!Reply, BasketShape
    <3> QED BY <1>0, <1>1, <2>1, <3>1 DEF BasketShape, WriteFields
  <2>2. CASE writes[s].op # "put"
    <3>1. writes' = [writes EXCEPT ![s] =
                       [[@ EXCEPT !.stage = "answered"] EXCEPT !.figures = "current"]]
      BY <1>0, <2>2 DEF Cart!Reply, BasketShape
    <3> QED BY <1>0, <1>1, <2>2, <3>1 DEF BasketShape, WriteFields
  <2> QED BY <2>1, <2>2
<1>3. BasketShape'
  BY <1>0, <1>1, <1>2 DEF BasketShape
<1>4. /\ \A t \in Slots : CartPends(t)' <=> CartPends(t)
      /\ \A t \in Slots : FiguresPend(t)' <=> FiguresPend(t)
  BY <1>1, <1>2 DEF CartPends, FiguresPend
<1>5. (CartWaits' <=> CartWaits) /\ (FiguresWait' <=> FiguresWait)
  BY <1>1, <1>4 DEF CartWaits, FiguresWait
<1>6. CartInv'
  <2> SUFFICES ASSUME ~overlap.cart PROVE CartInv'
    BY <1>1 DEF CartInv
  <2>1. EntryTells(shownCart, basket, CartWaits) /\ CartInv
    BY DEF BasketInv, CartInv
  <2>2. EntryTells(shownCart, basket, CartWaits)'
    BY <1>1, <1>5, <2>1 DEF EntryTells, RQ!Loaded
  <2>3. ASSUME NEW t \in Slots, (writes[t].stage = "answered" /\ writes[t].op = "put")'
        PROVE  (writes[t].lines = basket \/ \E x \in Slots \ {t} : CartPends(x))'
    <3>1. CASE t = s
      BY <1>1, <1>2, <2>3, <3>1
    <3>2. CASE t # s
      <4>1. writes[t].lines = basket \/ \E x \in Slots \ {t} : CartPends(x)
        BY <1>2, <2>1, <2>3, <3>2 DEF CartInv
      <4> QED BY <1>1, <1>2, <1>4, <3>2, <4>1
    <3> QED BY <3>1, <3>2
  <2> QED BY <2>2, <2>3 DEF CartInv
<1>7. FiguresInv'
  <2> SUFFICES ASSUME ~overlap.preview PROVE FiguresInv'
    BY <1>1 DEF FiguresInv
  <2>1. EntryTells(shownPreview, "current", FiguresWait) /\ FiguresInv
    BY DEF BasketInv, FiguresInv
  <2>2. EntryTells(shownPreview, "current", FiguresWait)'
    BY <1>1, <1>5, <2>1 DEF EntryTells, RQ!Loaded
  <2>3. ASSUME NEW t \in Slots, (writes[t].stage = "answered" /\ writes[t].op = "promo")'
        PROVE  (writes[t].figures = "current" \/ \E x \in Slots \ {t} : FiguresPend(x))'
    <3>1. CASE t = s
      BY <1>2, <2>3, <3>1
    <3>2. CASE t # s
      <4>1. writes[t].figures = "current" \/ \E x \in Slots \ {t} : FiguresPend(x)
        BY <1>2, <2>1, <2>3, <3>2 DEF FiguresInv
      <4> QED BY <1>2, <1>4, <3>2, <4>1
    <3> QED BY <3>1, <3>2
  <2> QED BY <2>2, <2>3 DEF FiguresInv
<1> QED BY <1>3, <1>6, <1>7 DEF BasketInv

\* A change nobody is told of is unheard; beside another request nothing more is claimed.
LEMMA LossIsUnheard ==
  ASSUME BasketInv, at = "basket", at' = at, NEW s \in Slots, Cart!Lose(s)
  PROVE  BasketInv'
<1>0. BasketShape
  BY DEF BasketInv
<1>1. /\ writes[s].stage \in {"applied", "answered"} /\ writes' = [writes EXCEPT ![s] = Cart!None]
      /\ UNCHANGED <<shownCart, shownPreview, basket>>
      /\ unheard' = [cart |-> unheard.cart \/ writes[s].op # "promo", preview |-> TRUE]
      /\ overlap' = [cart |-> overlap.cart \/ Cart!Busy # {s},
                     preview |-> overlap.preview \/ Cart!Busy # {s}]
  BY DEF Cart!Lose
<1>2. /\ DOMAIN writes' = Slots /\ writes'[s] = Cart!None /\ writes'[s].stage = "none"
      /\ \A t \in Slots \ {s} : writes'[t] = writes[t]
  BY <1>0, <1>1 DEF BasketShape, Cart!None
<1>3. DOMAIN unheard' = {"cart", "preview"} /\ unheard'.preview
      /\ unheard'.cart = (unheard.cart \/ writes[s].op # "promo")
  BY <1>0, <1>1 DEF BasketShape
<1>4. BasketShape'
  BY <1>0, <1>1, <1>2, <1>3 DEF BasketShape
<1>5. ASSUME Cart!Busy = {s}
      PROVE  \A t \in Slots : /\ writes'[t].stage = "none"
                              /\ t # s => writes[t].stage = "none"
  BY <1>2, <1>5 DEF Cart!Busy, Cart!None
<1>6. CartInv'
  <2> SUFFICES ASSUME ~overlap'.cart PROVE CartInv'
    BY DEF CartInv
  <2>1. ~overlap.cart /\ Cart!Busy = {s}
    BY <1>1
  <2>2. EntryTells(shownCart, basket, CartWaits)
    BY <2>1 DEF BasketInv, CartInv
  <2>3. CartWaits => CartWaits'
    BY <1>3, <1>5, <2>1 DEF CartWaits, CartPends
  <2>4. EntryTells(shownCart, basket, CartWaits)'
    BY <1>1, <2>2, <2>3 DEF EntryTells, RQ!Loaded
  <2> QED BY <1>5, <2>1, <2>4 DEF CartInv
<1>7. FiguresInv'
  <2> SUFFICES ASSUME ~overlap'.preview PROVE FiguresInv'
    BY DEF FiguresInv
  <2>1. ~overlap.preview /\ Cart!Busy = {s}
    BY <1>1
  <2>2. FiguresWait'
    BY <1>3 DEF FiguresWait
  <2>3. EntryTells(shownPreview, "current", FiguresWait)'
    BY <2>2 DEF EntryTells
  <2> QED BY <1>5, <2>1, <2>3 DEF FiguresInv
<1> QED BY <1>4, <1>6, <1>7 DEF BasketInv

\* What the history of answers stored beside another request says of the step.
LEMMA CrossedSays ==
  ASSUME NEW s, NEW cartMisses, NEW previewMisses, Cart!Crossed(s, cartMisses, previewMisses)
  PROVE  /\ ~overlap'.cart => ~overlap.cart /\ Cart!Busy = {s} /\ ~cartMisses
         /\ ~overlap'.preview => ~overlap.preview /\ Cart!Busy = {s} /\ ~previewMisses
<1>1. /\ overlap'.cart = (overlap.cart \/ Cart!Busy # {s} \/ cartMisses)
      /\ overlap'.preview = (overlap.preview \/ Cart!Busy # {s} \/ previewMisses)
  BY DEF Cart!Crossed
<1> QED BY <1>1

\* An answer that lands alone leaves both entries truthful, or with a fetch sent after it.
LEMMA LandSettles ==
  ASSUME BasketInv, at = "basket", at' = at, NEW s \in Slots, Cart!Land(s)
  PROVE  BasketInv'
<1> USE SameCart
<1>0. BasketShape
  BY DEF BasketInv
<1>1. /\ writes[s] # Cart!None /\ writes[s].stage = "answered" /\ basket' = basket
      /\ unheard' = unheard /\ writes' = [writes EXCEPT ![s] = Cart!None]
      /\ Cart!LandPut(s) \/ Cart!LandRemoval(s) \/ Cart!LandPromo(s)
  BY DEF Cart!Land
<1>10. /\ ~overlap'.cart => ~overlap.cart /\ Cart!Busy = {s}
       /\ ~overlap'.preview => ~overlap.preview /\ Cart!Busy = {s}
  BY <1>1, CrossedSays DEF Cart!LandPut, Cart!LandRemoval, Cart!LandPromo
<1>2. /\ DOMAIN writes' = Slots /\ writes'[s] = Cart!None /\ writes'[s].stage = "none"
      /\ \A t \in Slots \ {s} : writes'[t] = writes[t]
  BY <1>0, <1>1 DEF BasketShape, Cart!None
<1>3. BasketShape'
  <2>1. /\ shownCart' \in {shownCart, RQ!Write(shownCart, writes[s].lines), RQ!Invalidate(shownCart)}
        /\ shownPreview' \in {RQ!Mark(shownPreview), RQ!Invalidate(shownPreview),
                              RQ!Write(shownPreview, writes[s].figures)}
    BY <1>1 DEF Cart!LandPut, Cart!LandRemoval, Cart!LandPromo, Cart!InvalidateCart,
                Cart!InvalidatePreview
  <2>2. DOMAIN shownCart' = EntryFields /\ DOMAIN shownPreview' = EntryFields
    BY <1>0, <2>1, EntryShapes DEF BasketShape
  <2> QED BY <1>0, <1>1, <1>2, <2>2 DEF BasketShape
<1>4. CartWaits \in BOOLEAN /\ FiguresWait \in BOOLEAN /\ CartWaits' \in BOOLEAN /\ FiguresWait' \in BOOLEAN
  BY DEF CartWaits, FiguresWait
\* Beside another request, the step says so and nothing more is claimed.
<1>5. ASSUME ~overlap'.cart \/ ~overlap'.preview
      PROVE  \A t \in Slots \ {s} : writes[t].stage = "none" /\ writes'[t].stage = "none"
  <2>1. Cart!Busy = {s}
    BY <1>5, <1>10
  <2> QED BY <1>2, <2>1 DEF Cart!Busy, Cart!None
<1>6. CartInv'
  <2> SUFFICES ASSUME ~overlap'.cart PROVE CartInv'
    BY DEF CartInv
  <2>1. ~overlap.cart
    BY <1>10
  <2>2. EntryTells(shownCart, basket, CartWaits) /\ CartInv
    BY <2>1 DEF BasketInv, CartInv
  <2>3. \A t \in Slots \ {s} : ~CartPends(t)
    BY <1>5 DEF CartPends
  <2>4. EntryTells(shownCart', basket, CartWaits')
    <3>1. CASE Cart!LandPut(s)
      <4>1. shownCart' = RQ!Write(shownCart, writes[s].lines) /\ ~RQ!Fetching(shownCart)
        BY <3>1, CrossedSays DEF Cart!LandPut
      <4>2. writes[s].lines = basket
        BY <1>1, <2>1, <2>2, <2>3, <3>1 DEF CartInv, Cart!LandPut
      <4>3. EntryTells(RQ!Write(shownCart, basket), basket, CartWaits')
        BY <1>0, <1>4, <4>1, TellingMade DEF BasketShape
      <4> QED BY <4>1, <4>2, <4>3
    <3>2. CASE Cart!LandRemoval(s)
      <4>1. /\ shownCart' = RQ!Invalidate(shownCart)
            /\ ~(RQ!Fetching(shownCart) /\ ~RQ!Loaded(shownCart))
        BY <3>2, CrossedSays DEF Cart!LandRemoval, Cart!InvalidateCart, Cart!Joined
      <4> QED BY <1>0, <1>4, <4>1, TellingMade DEF BasketShape
    <3>3. CASE Cart!LandPromo(s)
      <4>1. shownCart' = shownCart /\ ~CartPends(s)
        BY <3>3 DEF Cart!LandPromo, CartPends
      <4>2. CartWaits => CartWaits'
        BY <1>1, <2>3, <4>1 DEF CartWaits
      <4> QED BY <2>2, <4>1, <4>2 DEF EntryTells
    <3> QED BY <1>1, <3>1, <3>2, <3>3
  <2>5. EntryTells(shownCart, basket, CartWaits)'
    BY <1>1, <2>4 DEF EntryTells, RQ!Loaded
  <2>6. \A t \in Slots : writes'[t].stage = "none"
    BY <1>2, <1>5
  <2> QED BY <2>5, <2>6 DEF CartInv
<1>7. FiguresInv'
  <2> SUFFICES ASSUME ~overlap'.preview PROVE FiguresInv'
    BY DEF FiguresInv
  <2>1. ~overlap.preview
    BY <1>10
  <2>2. EntryTells(shownPreview, "current", FiguresWait) /\ FiguresInv
    BY <2>1 DEF BasketInv, FiguresInv
  <2>3. \A t \in Slots \ {s} : ~FiguresPend(t)
    BY <1>5 DEF FiguresPend
  <2>4. EntryTells(shownPreview', "current", FiguresWait')
    <3>1. CASE Cart!LandPut(s) \/ Cart!LandRemoval(s)
      <4>1. shownPreview' = Cart!InvalidatePreview /\ ~Cart!PreviewJoined
        BY <3>1, CrossedSays DEF Cart!LandPut, Cart!LandRemoval
      <4>2. CASE Cart!ObservesPreview
        <5>1. /\ shownPreview' = RQ!Invalidate(shownPreview)
              /\ ~(RQ!Fetching(shownPreview) /\ ~RQ!Loaded(shownPreview))
          BY <4>1, <4>2 DEF Cart!InvalidatePreview, Cart!PreviewJoined, Cart!Joined
        <5> QED BY <1>0, <1>4, <5>1, TellingMade DEF BasketShape
      <4>3. CASE ~Cart!ObservesPreview
        <5>1. shownPreview' = RQ!Mark(shownPreview) /\ ~RQ!Fetching(shownPreview)
          BY <4>1, <4>3 DEF Cart!InvalidatePreview, Cart!PreviewJoined, Cart!Joined
        <5> QED BY <1>0, <1>4, <5>1, TellingMade DEF BasketShape
      <4> QED BY <4>2, <4>3
    <3>2. CASE Cart!LandPromo(s)
      <4>1. shownPreview' = RQ!Write(shownPreview, writes[s].figures) /\ ~RQ!Fetching(shownPreview)
        BY <3>2, CrossedSays DEF Cart!LandPromo
      <4>2. writes[s].figures = "current"
        BY <1>1, <2>1, <2>2, <2>3, <3>2 DEF FiguresInv, Cart!LandPromo
      <4>3. EntryTells(RQ!Write(shownPreview, "current"), "current", FiguresWait')
        BY <1>0, <1>4, <4>1, TellingMade DEF BasketShape
      <4> QED BY <4>1, <4>2, <4>3
    <3> QED BY <1>1, <3>1, <3>2
  <2>5. EntryTells(shownPreview, "current", FiguresWait)'
    BY <2>4 DEF EntryTells, RQ!Loaded
  <2>6. \A t \in Slots : writes'[t].stage = "none"
    BY <1>2, <1>5
  <2> QED BY <2>5, <2>6 DEF FiguresInv
<1> QED BY <1>3, <1>6, <1>7 DEF BasketInv

\* Once every request has been answered, the cart and the figures on screen are those of the
\* basket on the server, whichever button of whichever page changed it (useSetCartItem,
\* useRemoveCartItem, useSaveForLater and the promo hooks).
THEOREM ScreensFollow == CustomerSpec => []ScreenShowsTheBasket
<1> USE SameCart
<1>1. CustomerInit => BasketInv
  <2> SUFFICES ASSUME CustomerInit, at = "basket" PROVE BasketShape /\ CartInv /\ FiguresInv
    BY DEF BasketInv
  <2>1. /\ writes = [s \in Slots |-> Cart!None]
        /\ shownCart = RQ!Ask(RQ!Fresh) /\ shownPreview = RQ!Fresh
        /\ basket \in Cart!Lines /\ unheard = [cart |-> FALSE, preview |-> FALSE]
    BY DEF CustomerInit, Cart!BasketInit, Cart!RQ!Fresh, RQ!Fresh
  <2>2. DOMAIN RQ!Fresh = EntryFields /\ RQ!Fresh.data = Nothing /\ RQ!Fresh.fetch = Idle
    BY DEF RQ!Fresh, EntryFields
  <2>3. DOMAIN shownCart = EntryFields /\ shownCart.data = Nothing /\ shownCart.fetch = Sent
    BY <2>1, <2>2 DEF RQ!Ask, RQ!Fetching, EntryFields
  <2>4. \A s \in Slots : writes[s].stage = "none"
    BY <2>1 DEF Cart!None
  <2>5. BasketShape
    BY <2>1, <2>2, <2>3 DEF BasketShape
  <2> QED BY <2>1, <2>2, <2>3, <2>4, <2>5 DEF CartInv, FiguresInv, EntryTells, RQ!Loaded
<1>2. BasketInv /\ [CustomerNext]_customerVars => BasketInv'
  <2> SUFFICES ASSUME BasketInv, [CustomerNext]_customerVars, at = "basket", at' = at
               PROVE  BasketInv'
    BY DEF CustomerNext, customerVars, BasketInv
  <2>1. CASE UNCHANGED shopping
    <3>1. CallsStay
      BY <2>1 DEF shopping, BasketInv, BasketShape, CallsStay
    <3>2. (CartWaits' <=> CartWaits) /\ (FiguresWait' <=> FiguresWait)
      BY <2>1 DEF shopping, CartWaits, FiguresWait, CartPends, FiguresPend
    <3>3. EntriesStay
      BY <2>1, <3>2 DEF shopping, BasketInv, BasketShape, EntriesStay, EntryTells
    <3> QED BY <3>1, <3>3, BasketQuiet
  <2>2. CASE Cart!BasketNext
    <3>1. \/ BasketReads
          \/ Cart!Click \/ \E s \in Slots : Cart!Refuse(s)
          \/ \E s \in Slots : Cart!Apply(s) \/ Cart!Reply(s) \/ Cart!Lose(s) \/ Cart!Land(s)
      BY <2>2 DEF Cart!BasketNext, Cart!Answers, BasketReads
    <3> QED BY <3>1, ReadsAreQuiet, ClicksAreQuiet, ApplyPends, ReplyReads, LossIsUnheard,
           LandSettles
  <2> QED BY <2>1, <2>2 DEF CustomerNext, customerVars
<1>3. BasketInv => ScreenShowsTheBasket
  <2> SUFFICES ASSUME BasketInv, at = "basket", Cart!Busy = {}
               PROVE  Cart!CartTruth /\ Cart!PreviewTruth
    BY DEF ScreenShowsTheBasket, Cart!ScreenShowsTheBasket
  <2>1. \A s \in Slots : writes[s].stage = "none"
    BY DEF Cart!Busy, Cart!None
  <2>2. (CartWaits => unheard.cart) /\ (FiguresWait => unheard.preview)
    BY <2>1 DEF CartWaits, FiguresWait, CartPends, FiguresPend
  <2>3. ASSUME NEW q, ~Cart!RQ!Fetching(q) PROVE q.fetch \in {Idle, Sent}
    BY <2>3 DEF Cart!RQ!Fetching
  <2>4. Cart!CartTruth
    BY <2>2, <2>3 DEF BasketInv, CartInv, EntryTells, Cart!CartTruth
  <2>5. Cart!PreviewTruth
    BY <2>2, <2>3 DEF BasketInv, FiguresInv, EntryTells, Cart!PreviewTruth
  <2> QED BY <2>4, <2>5
<1> QED BY <1>1, <1>2, <1>3, PTL DEF CustomerSpec

-----------------------------------------------------------------------------
(* The tables of api/hooks.ts, and a copy of a read among the tab's own writes *)

\* What each read is computed from.
LEMMA ReadsAre ==
  /\ Reads["categories"] = {"categories"}
  /\ Reads["products"] = {"listing", "stock", "categories", "ratings"}
  /\ Reads["facets"] = {"listing", "categories"}
  /\ Reads["product"] = {"listing", "stock", "categories", "ratings", "reviews", "orders"}
  /\ Reads["related"] = {"listing", "stock", "related", "categories", "ratings"}
  /\ Reads["reviews"] = {"reviews"}
  /\ Reads["me"] = {"profile", "orders"}
  /\ Reads["cart"] = {"basket", "listing", "stock"}
  /\ Reads["preview"] = {"basket", "code", "promos", "orders", "listing", "stock"}
  /\ Reads["orders"] = {"orders", "payments"}
  /\ Reads["notifications"] = {"prefs", "newsletter"}
  /\ Reads["wishlist"] = {"hearts", "listing", "stock", "categories", "ratings"}
  /\ Reads["addresses"] = {"book"}
  /\ Reads["defaultAddress"] = {"book"}
  /\ Reads["adminCategories"] = {"categories"}
  /\ Reads["adminReviews"] = {"reviews"}
  /\ Reads["adminOrders"] = {"orders", "payments"}
  /\ Reads["adminProducts"] = {"listing", "stock", "categories"}
  /\ Reads["adminUsers"] = {"profile", "orders"}
  /\ Reads["adminPromos"] = {"promos", "orders"}
BY DEF Reads, StoreReads, CustomerReads, AdminReads, Merged

\* What the header, the footer and the rail show of them.
LEMMA GlimpsesAre ==
  /\ Glimpse["cart"] = {"basket"}
  /\ Glimpse["facets"] = {"listing", "categories"}
  /\ Glimpse["orders"] = {"orders"}
  /\ Glimpse["wishlist"] = {"hearts", "listing"}
  /\ Glimpse["addresses"] = {"book"}
BY DEF Glimpse

\* What a page shows itself, and the profile, which is kept while it is shown nowhere; and
\* what is mounted around it.
Sees(p) == Shows[p] \cup {"me"}
Peeks(p) == Layout(p) \ {"me"}
\* What a read tells, but for the standing in the club.
Tells(f) == IF f = "me" THEN {"profile"} ELSE Reads[f]
\* Whatever is on screen and the mutation changes, its onSuccess refreshes or sets.
Repairs(p, m) ==
  /\ \A f \in Sees(p) : Changes[m] \cap Tells(f) # {} => f \in Refreshes[m] \cup Sets[m]
  /\ \A f \in Peeks(p) : Changes[m] \cap Glimpse[f] # {} => f \in Refreshes[m] \cup Sets[m]

\* What each mutation changes on the server.
LEMMA ChangesAre ==
  /\ Changes["createReview"] = {"reviews"}
  /\ Changes["setCartItem"] = {"basket"}
  /\ Changes["removeCartItem"] = {"basket"}
  /\ Changes["applyPromo"] = {"code"}
  /\ Changes["removePromo"] = {"code"}
  /\ Changes["checkout"] = {"basket", "code", "orders", "stock", "book"}
  /\ Changes["reorder"] = {"basket"}
  /\ Changes["addWishlistToCart"] = {"basket"}
  /\ Changes["cancelOrder"] = {"orders", "stock"}
  /\ Changes["updateProfile"] = {"profile"}
  /\ Changes["setOrderUpdates"] = {"prefs"}
  /\ Changes["newsletterToggle"] = {"newsletter"}
  /\ Changes["toggleWishlist"] = {"hearts"}
  /\ Changes["saveForLater"] = {"basket", "hearts"}
  /\ Changes["writeAddress"] = {"book"}
  /\ Changes["moderateReview"] = {"reviews", "ratings"}
  /\ Changes["writeCategory"] = {"categories"}
  /\ Changes["writeProduct"] = {"listing", "stock"}
  /\ Changes["writeContent"] = {"listing"}
  /\ Changes["writeRelated"] = {"related"}
  /\ Changes["updateRole"] = {"profile"}
  /\ Changes["writePromo"] = {"promos"}
  /\ Changes["updateOrderStatus"] = {"orders", "stock", "reviews"}
  /\ Changes["updatePayment"] = {"payments"}
BY DEF Merged, Changes, ShopChanges, AccountChanges, AdminChanges

\* What each invalidates.
LEMMA RefreshesAre ==
  /\ Refreshes["createReview"] = {"product", "reviews"}
  /\ Refreshes["setCartItem"] = {"preview"}
  /\ Refreshes["removeCartItem"] = {"cart", "preview"}
  /\ Refreshes["applyPromo"] = {}
  /\ Refreshes["removePromo"] = {}
  /\ Refreshes["checkout"] = {"cart", "preview", "orders", "products", "product",
        "defaultAddress", "me"}
  /\ Refreshes["reorder"] = {"cart", "preview"}
  /\ Refreshes["addWishlistToCart"] = {"cart", "preview"}
  /\ Refreshes["cancelOrder"] = {"orders", "products", "product"}
  /\ Refreshes["updateProfile"] = {}
  /\ Refreshes["setOrderUpdates"] = {"notifications"}
  /\ Refreshes["newsletterToggle"] = {"notifications"}
  /\ Refreshes["toggleWishlist"] = {"wishlist"}
  /\ Refreshes["saveForLater"] = {"cart", "preview", "wishlist"}
  /\ Refreshes["writeAddress"] = {"addresses", "defaultAddress"}
  /\ Refreshes["moderateReview"] = {"adminReviews", "reviews", "product", "products"}
  /\ Refreshes["writeCategory"] = {"categories", "adminCategories"}
  /\ Refreshes["writeProduct"] = {"adminProducts", "products", "product", "facets",
        "related"}
  /\ Refreshes["writeContent"] = {"adminProducts", "products", "product", "facets",
        "related"}
  /\ Refreshes["writeRelated"] = {"adminProducts", "products", "product", "facets",
        "related"}
  /\ Refreshes["updateRole"] = {"adminUsers", "me"}
  /\ Refreshes["writePromo"] = {"adminPromos", "preview"}
  /\ Refreshes["updateOrderStatus"] = {"adminOrders", "orders", "products", "product"}
  /\ Refreshes["updatePayment"] = {"adminOrders", "orders"}
BY DEF Merged, Refreshes, CustomerRefreshes, AdminRefreshes, CatalogueRefreshes,
       ReviewRefreshes, CartRefreshes, CheckoutRefreshes, AccountRefreshes,
       ProductRefreshes, CategoryRefreshes, OfficeRefreshes

\* What the answer of some replaces.
LEMMA SetsAre ==
  /\ Sets["setCartItem"] = {"cart"}
  /\ Sets["applyPromo"] = {"preview"}
  /\ Sets["removePromo"] = {"preview"}
  /\ Sets["updateProfile"] = {"me"}
BY DEF Sets, Mutations, Merged, Changes, ShopChanges, AccountChanges, AdminChanges

\* What every page shows of the tables above.
LEMMA PagesSee ==
  /\ Sees("home") = {"me", "products", "cart", "wishlist"}
  /\ Sees("shop") = {"me", "products", "facets", "cart", "wishlist"}
  /\ Sees("product") = {"me", "product", "related", "reviews", "cart", "wishlist"}
  /\ Sees("cart") = {"me", "cart", "preview"}
  /\ Sees("checkout") = {"me", "cart", "preview", "defaultAddress"}
  /\ Sees("orders") = {"me", "orders"}
  /\ Sees("order") = {"me", "orders"}
  /\ Sees("wishlist") = {"me", "wishlist", "cart"}
  /\ Sees("addresses") = {"me", "addresses"}
  /\ Sees("settings") = {"me", "notifications"}
  /\ Sees("admin") = {"me", "adminCategories"}
  /\ Sees("adminProducts") = {"me", "adminProducts", "categories", "product", "related"}
  /\ Sees("adminOrders") = {"me", "adminOrders"}
  /\ Sees("adminPromos") = {"me", "adminPromos"}
  /\ Sees("adminReviews") = {"me", "adminReviews"}
  /\ Sees("adminUsers") = {"me", "adminUsers"}
BY DEF Sees, Shows

\* What is mounted around it.
LEMMA PagesPeek ==
  /\ Peeks("home") = {"cart", "facets"}
  /\ Peeks("shop") = {"cart", "facets"}
  /\ Peeks("product") = {"cart", "facets"}
  /\ Peeks("cart") = {"cart", "facets"}
  /\ Peeks("checkout") = {}
  /\ Peeks("orders") = {"cart", "facets", "orders", "wishlist", "addresses"}
  /\ Peeks("order") = {"cart", "facets", "orders", "wishlist", "addresses"}
  /\ Peeks("wishlist") = {"cart", "facets", "orders", "wishlist", "addresses"}
  /\ Peeks("addresses") = {"cart", "facets", "orders", "wishlist", "addresses"}
  /\ Peeks("settings") = {"cart", "facets", "orders", "wishlist", "addresses"}
  /\ Peeks("admin") = {}
  /\ Peeks("adminProducts") = {}
  /\ Peeks("adminOrders") = {}
  /\ Peeks("adminPromos") = {}
  /\ Peeks("adminReviews") = {}
  /\ Peeks("adminUsers") = {}
BY DEF Peeks, Layout, Chrome, Rail, Storefront, Account

\* Every page refreshes or sets whatever it shows and its own mutations change.
LEMMA PagesRepair == \A p \in Pages : \A m \in Offers[p] : Repairs(p, m)
<1>1. \A m \in Offers["home"] : Repairs("home", m)
  <2>1. Offers["home"] = {"setCartItem", "toggleWishlist"}
    BY DEF Offers
  <2> QED BY <2>1, PagesSee, PagesPeek, GlimpsesAre, ReadsAre, ChangesAre, RefreshesAre, SetsAre
         DEF Repairs, Tells
<1>2. \A m \in Offers["shop"] : Repairs("shop", m)
  <2>1. Offers["shop"] = {"setCartItem", "toggleWishlist"}
    BY DEF Offers
  <2> QED BY <2>1, PagesSee, PagesPeek, GlimpsesAre, ReadsAre, ChangesAre, RefreshesAre, SetsAre
         DEF Repairs, Tells
<1>3. \A m \in Offers["product"] : Repairs("product", m)
  <2>1. Offers["product"] = {"setCartItem", "toggleWishlist", "createReview"}
    BY DEF Offers
  <2> QED BY <2>1, PagesSee, PagesPeek, GlimpsesAre, ReadsAre, ChangesAre, RefreshesAre, SetsAre
         DEF Repairs, Tells
<1>4. \A m \in Offers["cart"] : Repairs("cart", m)
  <2>1. Offers["cart"] = {"setCartItem", "removeCartItem", "saveForLater", "applyPromo",
          "removePromo"}
    BY DEF Offers
  <2> QED BY <2>1, PagesSee, PagesPeek, GlimpsesAre, ReadsAre, ChangesAre, RefreshesAre, SetsAre
         DEF Repairs, Tells
<1>5. \A m \in Offers["checkout"] : Repairs("checkout", m)
  <2>1. Offers["checkout"] = {"checkout", "applyPromo", "removePromo"}
    BY DEF Offers
  <2> QED BY <2>1, PagesSee, PagesPeek, GlimpsesAre, ReadsAre, ChangesAre, RefreshesAre, SetsAre
         DEF Repairs, Tells
<1>6. \A m \in Offers["orders"] : Repairs("orders", m)
  <2>1. Offers["orders"] = {"reorder"}
    BY DEF Offers
  <2> QED BY <2>1, PagesSee, PagesPeek, GlimpsesAre, ReadsAre, ChangesAre, RefreshesAre, SetsAre
         DEF Repairs, Tells
<1>7. \A m \in Offers["order"] : Repairs("order", m)
  <2>1. Offers["order"] = {"reorder", "cancelOrder"}
    BY DEF Offers
  <2> QED BY <2>1, PagesSee, PagesPeek, GlimpsesAre, ReadsAre, ChangesAre, RefreshesAre, SetsAre
         DEF Repairs, Tells
<1>8. \A m \in Offers["wishlist"] : Repairs("wishlist", m)
  <2>1. Offers["wishlist"] = {"setCartItem", "toggleWishlist", "addWishlistToCart"}
    BY DEF Offers
  <2> QED BY <2>1, PagesSee, PagesPeek, GlimpsesAre, ReadsAre, ChangesAre, RefreshesAre, SetsAre
         DEF Repairs, Tells
<1>9. \A m \in Offers["addresses"] : Repairs("addresses", m)
  <2>1. Offers["addresses"] = {"writeAddress"}
    BY DEF Offers
  <2> QED BY <2>1, PagesSee, PagesPeek, GlimpsesAre, ReadsAre, ChangesAre, RefreshesAre, SetsAre
         DEF Repairs, Tells
<1>10. \A m \in Offers["settings"] : Repairs("settings", m)
  <2>1. Offers["settings"] = {"updateProfile", "setOrderUpdates", "newsletterToggle"}
    BY DEF Offers
  <2> QED BY <2>1, PagesSee, PagesPeek, GlimpsesAre, ReadsAre, ChangesAre, RefreshesAre, SetsAre
         DEF Repairs, Tells
<1>11. \A m \in Offers["admin"] : Repairs("admin", m)
  <2>1. Offers["admin"] = {"writeCategory"}
    BY DEF Offers
  <2> QED BY <2>1, PagesSee, PagesPeek, GlimpsesAre, ReadsAre, ChangesAre, RefreshesAre, SetsAre
         DEF Repairs, Tells
<1>12. \A m \in Offers["adminProducts"] : Repairs("adminProducts", m)
  <2>1. Offers["adminProducts"] = {"writeProduct", "writeContent", "writeRelated"}
    BY DEF Offers
  <2> QED BY <2>1, PagesSee, PagesPeek, GlimpsesAre, ReadsAre, ChangesAre, RefreshesAre, SetsAre
         DEF Repairs, Tells
<1>13. \A m \in Offers["adminOrders"] : Repairs("adminOrders", m)
  <2>1. Offers["adminOrders"] = {"updateOrderStatus", "updatePayment"}
    BY DEF Offers
  <2> QED BY <2>1, PagesSee, PagesPeek, GlimpsesAre, ReadsAre, ChangesAre, RefreshesAre, SetsAre
         DEF Repairs, Tells
<1>14. \A m \in Offers["adminPromos"] : Repairs("adminPromos", m)
  <2>1. Offers["adminPromos"] = {"writePromo"}
    BY DEF Offers
  <2> QED BY <2>1, PagesSee, PagesPeek, GlimpsesAre, ReadsAre, ChangesAre, RefreshesAre, SetsAre
         DEF Repairs, Tells
<1>15. \A m \in Offers["adminReviews"] : Repairs("adminReviews", m)
  <2>1. Offers["adminReviews"] = {"moderateReview"}
    BY DEF Offers
  <2> QED BY <2>1, PagesSee, PagesPeek, GlimpsesAre, ReadsAre, ChangesAre, RefreshesAre, SetsAre
         DEF Repairs, Tells
<1>16. \A m \in Offers["adminUsers"] : Repairs("adminUsers", m)
  <2>1. Offers["adminUsers"] = {"updateRole"}
    BY DEF Offers
  <2> QED BY <2>1, PagesSee, PagesPeek, GlimpsesAre, ReadsAre, ChangesAre, RefreshesAre, SetsAre
         DEF Repairs, Tells
<1> QED BY <1>1, <1>2, <1>3, <1>4, <1>5, <1>6, <1>7, <1>8, <1>9, <1>10, <1>11, <1>12, <1>13, <1>14, <1>15, <1>16 DEF Pages, Shows

\* A change made and not yet landed, of a mutation whose landing repairs the copy.
Heals(s) == /\ calls[s].stage \in {"applied", "answered"} /\ calls[s].is.touches
            /\ calls[s].is.refreshes \/ calls[s].is.sets
Healing == \E s \in Slots : Heals(s)
\* What the tab has is current, or will be asked for, or repaired.
Pend == copy.data = "current" \/ RQ!Fetching(copy) \/ Healing

CallFields == {"stage", "is", "ans", "left"}
CallFits(c, p) ==
  /\ DOMAIN c = CallFields
  /\ \E m \in Mutations : c.is = Effect(m) /\ (~c.left => m \in Offers[p])
  /\ c.stage = "answered" /\ c.is.sets => c.ans \in Ages

HooksShape ==
  /\ page \in Pages /\ fact \in Reads[family]
  /\ DOMAIN copy = EntryFields /\ copy.fetch \in {Idle, Sent} \cup [got : Ages]
  /\ DOMAIN calls = Slots
  /\ \A s \in Slots : calls[s] = Free \/ CallFits(calls[s], page)

\* A shown copy, and a kept one that is not marked, is current or about to be.
CopyInv ==
  ~Standing /\ ~excused =>
    /\ copy.fetch \notin {Idle, Sent} => copy.fetch.got = "current" \/ Healing
    /\ RQ!Loaded(copy) /\ (Displays(page) \/ (Keeps(family) /\ ~copy.invalid)) => Pend

HooksInv == HooksShape /\ CopyInv

\* A call fits on every page once it was left, and as long as its answer keeps an age.
LEMMA FitsOn ==
  ASSUME NEW c, NEW d, NEW p, NEW q, CallFits(c, p), DOMAIN d = CallFields, d.is = c.is,
         d.left \/ (q = p /\ d.left = c.left), d.stage = "answered" /\ d.is.sets => d.ans \in Ages
  PROVE  CallFits(d, q)
<1>1. PICK m \in Mutations : c.is = Effect(m) /\ (~c.left => m \in Offers[p])
  BY DEF CallFits
<1>2. d.is = Effect(m) /\ (~d.left => m \in Offers[q])
  BY <1>1
<1> QED BY <1>2 DEF CallFits

\* What a call is to the watched read does not depend on the state of the tab.
LEMMA FitsNext ==
  ASSUME UNCHANGED <<family, fact>>, NEW s, CallFits(calls'[s], page')
  PROVE  CallFits(calls[s], page)'
<1>1. \A m : Effect(m)' = Effect(m)
  BY DEF Effect, Touches
<1> QED BY <1>1 DEF CallFits

\* The calls that repair are the same after a step that applies nothing and lands nothing.
LEMMA HealingStays ==
  ASSUME \A s \in Slots : Heals(s)' <=> Heals(s)
  PROVE  Healing' <=> Healing
BY DEF Healing

\* A click, a refusal and an answer read on the server leave the copy as it is.
LEMMA CallsAreQuiet ==
  ASSUME HooksInv,
         (\E m \in Mutations : Click(m)) \/ (\E s \in Slots : Refuse(s) \/ Reply(s))
  PROVE  HooksInv'
<1>1. UNCHANGED <<family, fact, page, copy, excused>>
  BY DEF Click, Refuse, Reply, watching
<1>2. /\ DOMAIN calls' = Slots
      /\ \A s \in Slots : calls'[s] = Free \/ CallFits(calls'[s], page')
      /\ \A s \in Slots : Heals(s)' <=> Heals(s)
  <2>1. ASSUME NEW m \in Mutations, Click(m) PROVE <1>2!:
    <3> DEFINE call == [stage |-> "sent", is |-> Effect(m), ans |-> Nothing, left |-> FALSE]
    <3>1. PICK s \in Slots \ Busy : calls' = [calls EXCEPT ![s] = call]
      BY <2>1 DEF Click
    <3>2. calls[s] = Free /\ m \in Offers[page]
      BY <2>1, <3>1 DEF Busy, Click
    <3>3. DOMAIN calls' = Slots /\ calls'[s] = call /\ \A t \in Slots \ {s} : calls'[t] = calls[t]
      BY <3>1 DEF HooksInv, HooksShape
    <3>4. CallFits(call, page')
      BY <1>1, <3>2 DEF CallFits, CallFields
    <3>5. \A t \in Slots \ {s} : calls[t] = Free \/ CallFits(calls[t], page')
      BY <1>1 DEF HooksInv, HooksShape
    <3>6. ~Heals(s) /\ ~Heals(s)' /\ \A t \in Slots \ {s} : Heals(t)' <=> Heals(t)
      BY <3>2, <3>3 DEF Heals, Free
    <3> HIDE DEF call
    <3> QED BY <3>3, <3>4, <3>5, <3>6
  <2>2. ASSUME NEW s \in Slots, Refuse(s) PROVE <1>2!:
    <3>1. calls[s].stage = "sent" /\ calls' = [calls EXCEPT ![s] = Free]
      BY <2>2 DEF Refuse
    <3>2. DOMAIN calls' = Slots /\ calls'[s] = Free /\ \A t \in Slots \ {s} : calls'[t] = calls[t]
      BY <3>1 DEF HooksInv, HooksShape
    <3>3. \A t \in Slots \ {s} : calls[t] = Free \/ CallFits(calls[t], page')
      BY <1>1 DEF HooksInv, HooksShape
    <3>4. ~Heals(s) /\ ~Heals(s)' /\ \A t \in Slots \ {s} : Heals(t)' <=> Heals(t)
      BY <3>1, <3>2 DEF Heals, Free
    <3> QED BY <3>2, <3>3, <3>4
  <2>3. ASSUME NEW s \in Slots, Reply(s) PROVE <1>2!:
    <3>1. /\ calls[s] # Free /\ calls[s].stage = "applied"
          /\ calls' = [calls EXCEPT ![s].stage = "answered", ![s].ans = "current"]
      BY <2>3 DEF Reply
    <3>2. CallFits(calls[s], page)
      BY <3>1 DEF HooksInv, HooksShape
    <3>3. /\ DOMAIN calls' = Slots /\ \A t \in Slots \ {s} : calls'[t] = calls[t]
          /\ DOMAIN calls'[s] = CallFields /\ calls'[s].is = calls[s].is
          /\ calls'[s].left = calls[s].left /\ calls'[s].stage = "answered"
          /\ calls'[s].ans = "current"
      BY <3>1, <3>2 DEF HooksInv, HooksShape, CallFits, CallFields
    <3>4. CallFits(calls'[s], page')
      BY <1>1, <3>2, <3>3, FitsOn DEF Ages
    <3>5. \A t \in Slots \ {s} : calls[t] = Free \/ CallFits(calls[t], page')
      BY <1>1 DEF HooksInv, HooksShape
    <3>6. \A t \in Slots : Heals(t)' <=> Heals(t)
      BY <3>1, <3>3 DEF Heals
    <3> QED BY <3>3, <3>4, <3>5, <3>6
  <2> QED BY <2>1, <2>2, <2>3
<1>3. Healing' <=> Healing
  BY <1>2, HealingStays
<1>4. HooksShape'
  BY <1>1, <1>2, FitsNext DEF HooksInv, HooksShape
<1>5. CopyInv'
  BY <1>1, <1>3 DEF HooksInv, CopyInv, Pend, Displays, Standing, RQ!Loaded, RQ!Fetching
<1> QED BY <1>4, <1>5 DEF HooksInv

\* The next page asks for what it newly shows, and a read answers with what the server has.
LEMMA PagesAndReads ==
  ASSUME HooksInv, (\E p \in Pages : Visit(p)) \/ Focus \/ ReadCopy \/ StoreCopy \/ Unavailable
  PROVE  HooksInv'
<1>1. /\ UNCHANGED <<family, fact>>
      /\ DOMAIN copy = EntryFields /\ copy.fetch \in {Idle, Sent} \cup [got : Ages]
  BY DEF HooksInv, HooksShape, Visit, Focus, ReadCopy, StoreCopy, Unavailable, watching
<1>2. /\ DOMAIN calls' = Slots
      /\ \A s \in Slots : calls'[s] = Free \/ CallFits(calls'[s], page')
      /\ \A s \in Slots : Heals(s)' <=> Heals(s)
      /\ page' \in Pages
  <2>1. ASSUME NEW p \in Pages, Visit(p) PROVE <1>2!:
    <3>1. /\ page' = p
          /\ calls' = [s \in Slots |-> IF calls[s] = Free THEN Free
                                       ELSE [calls[s] EXCEPT !.left = TRUE]]
      BY <2>1 DEF Visit
    <3>2. ASSUME NEW s \in Slots
          PROVE  /\ calls'[s] = Free \/ CallFits(calls'[s], page')
                 /\ Heals(s)' <=> Heals(s)
      <4>1. CASE calls[s] = Free
        BY <3>1, <4>1 DEF Heals
      <4>2. CASE calls[s] # Free
        <5>1. CallFits(calls[s], page)
          BY <4>2 DEF HooksInv, HooksShape
        <5>2. /\ DOMAIN calls'[s] = CallFields /\ calls'[s].is = calls[s].is /\ calls'[s].left
              /\ calls'[s].stage = calls[s].stage /\ calls'[s].ans = calls[s].ans
          BY <3>1, <4>2, <5>1 DEF CallFits, CallFields
        <5>3. CallFits(calls'[s], page')
          BY <5>1, <5>2, FitsOn DEF CallFits
        <5>4. Heals(s)' <=> Heals(s)
          BY <5>2 DEF Heals
        <5> QED BY <5>3, <5>4
      <4> QED BY <4>1, <4>2
    <3> QED BY <3>1, <3>2
  <2>2. CASE UNCHANGED <<page, calls>>
    BY <1>1, <2>2 DEF HooksInv, HooksShape, Heals
  <2> QED BY <2>1, <2>2 DEF Focus, ReadCopy, StoreCopy, Unavailable
<1>3. Healing' <=> Healing
  BY <1>2, HealingStays
<1>4. DOMAIN copy' = EntryFields /\ copy'.fetch \in {Idle, Sent} \cup [got : Ages]
  BY <1>1 DEF Visit, Focus, ReadCopy, StoreCopy, Unavailable, Observe, EntryFields, Ages,
              RQ!Ask, RQ!Answer, RQ!Store, RQ!GiveUp, RQ!Fetching
<1>5. CopyInv'
  <2> SUFFICES ASSUME ~Standing, ~excused' PROVE CopyInv'
    BY <1>1 DEF CopyInv, Standing
  <2>1. ASSUME ~excused, UNCHANGED excused, Observe PROVE CopyInv'
    <3>1. CASE copy' = RQ!Ask(copy)
      BY <1>1, <1>3, <2>1, <3>1, SentIsNotIdle
      DEF HooksInv, CopyInv, Pend, Standing, RQ!Ask, RQ!Fetching, RQ!Loaded, EntryFields
    <3>2. CASE Young /\ UNCHANGED copy
      BY <1>1, <1>3, <2>1, <3>2 DEF HooksInv, CopyInv, Pend, Standing, Young, RQ!Fetching, RQ!Loaded
    <3> QED BY <2>1, <3>1, <3>2 DEF Observe
  <2>2. ASSUME NEW p \in Pages, Visit(p) PROVE CopyInv'
    <3>1. CASE Observe
      BY <2>1, <2>2, <3>1 DEF Visit
    <3>2. CASE family \notin Shows[p] \cup (Layout(p) \ Layout(page)) /\ UNCHANGED copy
      <4>1. Displays(page)' => Displays(page)
        BY <1>1, <2>2, <3>2 DEF Displays, Visit
      <4>2. ~excused
        BY <2>2 DEF Visit
      <4> QED BY <1>1, <1>3, <3>2, <4>1, <4>2 DEF HooksInv, CopyInv, Pend, Standing, RQ!Fetching, RQ!Loaded
    <3> QED BY <2>2, <3>1, <3>2 DEF Visit
  <2>3. CASE Focus
    BY <2>1, <2>3 DEF Focus
  <2>4. CASE ReadCopy
    <3>1. copy'.fetch = [got |-> "current"] /\ copy'.fetch # Idle
      BY <1>1, <2>4, IdleIsNoAnswer DEF ReadCopy, RQ!Answer, EntryFields, Ages
    <3> QED BY <3>1 DEF CopyInv, Pend, RQ!Fetching
  <2>5. CASE StoreCopy
    <3>1. /\ copy.fetch \notin {Idle, Sent} /\ copy'.fetch = Idle /\ copy'.data = copy.fetch.got
          /\ ~excused
      BY <2>5 DEF StoreCopy, RQ!Store
    <3> QED BY <1>1, <1>3, <3>1 DEF HooksInv, CopyInv, Pend, Standing
  <2>6. CASE Unavailable
    BY <2>6 DEF Unavailable
  <2> QED BY <2>2, <2>3, <2>4, <2>5, <2>6
<1> QED BY <1>1, <1>2, <1>4, <1>5, FitsNext DEF HooksInv, HooksShape

\* A change that outdates the copy is of a call that will repair it, or the copy is not
\* looked at where such a call can be sent from, and no fetch is under way.
LEMMA ApplyOutdates ==
  ASSUME HooksInv, NEW s \in Slots, Apply(s)
  PROVE  HooksInv'
<1> DEFINE c == calls[s]
<1>1. /\ c # Free /\ c.stage = "sent" /\ UNCHANGED <<family, fact, page>>
      /\ copy' = IF c.is.touches THEN OlderCopy(copy) ELSE copy
      /\ ~excused' => ~excused /\ ~Elsewhere(c)
  BY DEF Apply, watching
<1>2. PICK m \in Mutations : c.is = Effect(m) /\ (~c.left => m \in Offers[page])
  BY <1>1 DEF HooksInv, HooksShape, CallFits
<1>3. /\ DOMAIN calls' = Slots /\ calls'[s] # Free
      /\ \A t \in Slots : calls'[t] = Free \/ CallFits(calls'[t], page')
      /\ \A t \in Slots \ {s} : Heals(t)' <=> Heals(t)
      /\ calls'[s].is = c.is /\ calls'[s].stage \in {"applied", "answered"}
  <2> DEFINE rest == IF c.is.touches THEN [x \in Slots |-> OlderCall(calls[x])] ELSE calls
             next == IF c.is.sets THEN "applied" ELSE "answered"
  <2>1. calls' = [rest EXCEPT ![s].stage = next]
    BY DEF Apply
  <2>2. /\ DOMAIN rest = Slots
        /\ \A t \in Slots : rest[t] = IF c.is.touches THEN OlderCall(calls[t]) ELSE calls[t]
    BY DEF HooksInv, HooksShape
  <2> HIDE DEF rest
  <2>3. DOMAIN calls' = Slots /\ \A t \in Slots \ {s} : calls'[t] = rest[t]
    BY <2>1, <2>2
  <2>4. calls'[s] = [rest[s] EXCEPT !.stage = next]
    BY <2>1, <2>2
  <2>5. ASSUME NEW t \in Slots, calls[t] # Free
        PROVE  /\ DOMAIN rest[t] = CallFields /\ rest[t].is = calls[t].is
               /\ rest[t].left = calls[t].left /\ rest[t].stage = calls[t].stage
               /\ calls[t].ans \in Ages => rest[t].ans \in Ages
    <3>1. DOMAIN calls[t] = CallFields
      BY <2>5 DEF HooksInv, HooksShape, CallFits
    <3> QED BY <2>2, <2>5, <3>1 DEF OlderCall, Older, CallFields, Ages
  <2>6. ASSUME NEW t \in Slots \ {s}
        PROVE  (calls'[t] = Free \/ CallFits(calls'[t], page')) /\ (Heals(t)' <=> Heals(t))
    <3>1. CASE calls[t] = Free
      BY <2>2, <2>3, <3>1 DEF OlderCall, Heals
    <3>2. CASE calls[t] # Free
      <4>1. CallFits(calls[t], page)
        BY <3>2 DEF HooksInv, HooksShape
      <4>2. /\ DOMAIN calls'[t] = CallFields /\ calls'[t].is = calls[t].is
            /\ calls'[t].left = calls[t].left /\ calls'[t].stage = calls[t].stage
            /\ calls[t].ans \in Ages => calls'[t].ans \in Ages
        BY <2>3, <2>5, <3>2
      <4>3. CallFits(calls'[t], page')
        BY <1>1, <4>1, <4>2, FitsOn DEF CallFits
      <4> QED BY <4>2, <4>3 DEF Heals
    <3> QED BY <3>1, <3>2
  <2>7. /\ DOMAIN calls'[s] = CallFields /\ calls'[s].is = c.is /\ calls'[s].left = c.left
        /\ calls'[s].stage = next
    BY <1>1, <2>4, <2>5 DEF CallFields
  <2>8. CallFits(calls'[s], page')
    <3>1. CallFits(c, page)
      BY <1>1 DEF HooksInv, HooksShape
    <3> QED BY <1>1, <2>7, <3>1, FitsOn
  <2>9. calls'[s] # Free
    BY <2>7 DEF Free
  <2> QED BY <2>3, <2>6, <2>7, <2>8, <2>9
<1>4. DOMAIN copy' = EntryFields /\ copy'.fetch \in {Idle, Sent} \cup [got : Ages]
  BY <1>1 DEF HooksInv, HooksShape, OlderCopy, EntryFields, Ages
<1>5. HooksShape'
  BY <1>1, <1>3, <1>4, FitsNext DEF HooksInv, HooksShape
<1>6. CopyInv'
  <2>a. SUFFICES ASSUME ~Standing, ~excused' PROVE CopyInv'
    BY <1>1 DEF CopyInv, Standing
  <2>1. ~excused /\ ~Elsewhere(c)
    BY <1>1, <2>a
  <2>2. CASE ~c.is.touches
    <3>1. copy' = copy /\ ~Heals(s) /\ ~Heals(s)'
      BY <1>1, <1>3, <2>2 DEF Heals
    <3>2. Healing' <=> Healing
      BY <1>3, <3>1, HealingStays
    <3> QED BY <1>1, <2>1, <3>1, <3>2 DEF HooksInv, CopyInv, Pend, Displays, Standing, RQ!Loaded, RQ!Fetching
  <2>3. CASE c.is.touches /\ (c.is.refreshes \/ c.is.sets)
    <3>1. Heals(s)'
      BY <1>3, <2>3 DEF Heals
    <3> QED BY <3>1 DEF CopyInv, Pend, Healing
  <2>4. CASE c.is.touches /\ ~c.is.refreshes /\ ~c.is.sets
    <3>1. ~c.left /\ copy.fetch = Idle
      BY <2>1, <2>4 DEF Elsewhere, RQ!Fetching
    <3>2. m \in Offers[page] /\ Touches(m) /\ family \notin Refreshes[m] \cup Sets[m]
      <4>1. /\ Effect(m).touches = Touches(m) /\ Effect(m).sets = (family \in Sets[m])
            /\ Effect(m).refreshes = (family \in Refreshes[m])
        BY DEF Effect
      <4>2. Touches(m) /\ family \notin Sets[m] /\ family \notin Refreshes[m]
        BY <1>2, <2>4, <4>1
      <4> QED BY <1>2, <3>1, <4>2
    <3>3. ~Displays(page) /\ family # "me"
      <4>1. page \in Pages /\ fact \in Reads[family] /\ fact \in Changes[m] /\ Repairs(page, m)
        BY <3>2, PagesRepair DEF HooksInv, HooksShape, Touches
      <4>2. family \notin Sees(page)
        <5>1. family = "me" => fact = "profile"
          BY <1>1, <2>a, <4>1, ReadsAre DEF Standing
        <5>2. fact \in Tells(family)
          BY <4>1, <5>1 DEF Tells
        <5> QED BY <3>2, <4>1, <5>2 DEF Repairs
      <4>3. family \in Peeks(page) => fact \notin Glimpse[family]
        BY <3>2, <4>1 DEF Repairs
      <4> QED BY <4>2, <4>3 DEF Displays, Sees, Peeks
    <3>4. copy'.fetch = Idle
      BY <1>1, <3>1 DEF OlderCopy, HooksInv, HooksShape, EntryFields
    <3> QED BY <1>1, <3>3, <3>4 DEF CopyInv, Displays, Keeps
  <2> QED BY <2>2, <2>3, <2>4
<1> QED BY <1>5, <1>6 DEF HooksInv

\* A landing that repairs the copy writes the answer, or asks anew and marks it.
LEMMA LandRepairs ==
  ASSUME HooksInv, NEW s \in Slots, Land(s)
  PROVE  HooksInv'
<1> DEFINE c == calls[s]
<1>1. /\ c # Free /\ c.stage = "answered" /\ calls' = [calls EXCEPT ![s] = Free]
      /\ UNCHANGED <<family, fact, page>>
      /\ copy' = IF c.is.sets THEN RQ!Write(copy, c.ans)
                 ELSE IF c.is.refreshes THEN Invalidated ELSE copy
      /\ ~excused' => /\ ~excused
                      /\ c.is.sets => ~RQ!Fetching(copy) /\ c.ans # "old"
                      /\ ~c.is.sets /\ c.is.refreshes => ~Joined
  BY DEF Land, watching
<1>2. CallFits(c, page) /\ DOMAIN copy = EntryFields /\ copy.fetch \in {Idle, Sent} \cup [got : Ages]
  BY <1>1 DEF HooksInv, HooksShape
<1>3. DOMAIN calls' = Slots /\ calls'[s] = Free /\ \A t \in Slots \ {s} : calls'[t] = calls[t]
  BY <1>1 DEF HooksInv, HooksShape
<1>4. DOMAIN copy' = EntryFields /\ copy'.fetch \in {Idle, Sent} \cup [got : Ages]
  BY <1>1, <1>2 DEF EntryFields, Invalidated, RQ!Write, RQ!Invalidate, RQ!Mark, RQ!Fetching, RQ!Loaded
<1>5. HooksShape'
  <2>1. \A t \in Slots : calls'[t] = Free \/ CallFits(calls'[t], page')
    BY <1>1, <1>3 DEF HooksInv, HooksShape
  <2> QED BY <1>1, <1>3, <1>4, <2>1, FitsNext DEF HooksInv, HooksShape
<1>6. CopyInv'
  <2> SUFFICES ASSUME ~Standing, ~excused' PROVE CopyInv'
    BY <1>1 DEF CopyInv, Standing
  <2>1. CASE c.is.sets
    <3>1. copy'.fetch = Idle /\ copy'.data = "current"
      BY <1>1, <1>2, <2>1 DEF CallFits, Ages, RQ!Write, RQ!Fetching, EntryFields
    <3> QED BY <3>1 DEF CopyInv, Pend
  <2>2. CASE ~c.is.sets /\ c.is.refreshes
    <3>1. copy' = Invalidated /\ ~Joined
      BY <1>1, <2>2
    <3>2. CASE Shown
      <4>1. copy'.fetch = Sent
        BY <1>2, <3>1, <3>2
        DEF Invalidated, Joined, RQ!Invalidate, RQ!Mark, RQ!Fetching, RQ!Loaded, EntryFields
      <4> QED BY <4>1, SentIsNotIdle DEF CopyInv, Pend, RQ!Fetching
    <3>3. CASE ~Shown
      <4>1. copy'.fetch = Idle /\ copy'.invalid /\ ~Displays(page)'
        BY <1>1, <1>2, <3>1, <3>3
        DEF Invalidated, Joined, RQ!Mark, RQ!Fetching, EntryFields, Shown, Displays, Watched
      <4> QED BY <4>1 DEF CopyInv
    <3> QED BY <3>2, <3>3
  <2>3. CASE ~c.is.sets /\ ~c.is.refreshes
    <3>1. copy' = copy /\ ~excused
      BY <1>1, <2>3
    <3>2. ~Heals(s) /\ ~Heals(s)' /\ \A t \in Slots \ {s} : Heals(t)' <=> Heals(t)
      BY <1>3, <2>3 DEF Heals, Free
    <3>3. Healing' <=> Healing
      BY <3>2, HealingStays
    <3> QED BY <1>1, <3>1, <3>3 DEF HooksInv, CopyInv, Pend, Displays, Standing, RQ!Loaded, RQ!Fetching
  <2> QED BY <2>1, <2>2, <2>3
<1> QED BY <1>5, <1>6 DEF HooksInv

\* A lost answer leaves the copy, and is recorded if the copy tells what it was about.
LEMMA LossIsExcused ==
  ASSUME HooksInv, NEW s \in Slots, Lose(s)
  PROVE  HooksInv'
<1>1. /\ UNCHANGED <<family, fact, page, copy>> /\ calls' = [calls EXCEPT ![s] = Free]
      /\ ~excused' => ~excused /\ ~calls[s].is.touches
  BY DEF Lose, watching
<1>2. DOMAIN calls' = Slots /\ calls'[s] = Free /\ \A t \in Slots \ {s} : calls'[t] = calls[t]
  BY <1>1 DEF HooksInv, HooksShape
<1>3. HooksShape'
  <2>1. \A t \in Slots : calls'[t] = Free \/ CallFits(calls'[t], page')
    BY <1>1, <1>2 DEF HooksInv, HooksShape
  <2> QED BY <1>1, <1>2, <2>1, FitsNext DEF HooksInv, HooksShape
<1>4. ASSUME ~excused' PROVE Healing' <=> Healing
  <2>1. ~Heals(s) /\ ~Heals(s)' /\ \A t \in Slots \ {s} : Heals(t)' <=> Heals(t)
    BY <1>1, <1>2, <1>4 DEF Heals, Free
  <2> QED BY <2>1, HealingStays
<1>5. CopyInv'
  BY <1>1, <1>4 DEF HooksInv, CopyInv, Pend, Displays, Standing, RQ!Loaded, RQ!Fetching
<1> QED BY <1>3, <1>5 DEF HooksInv

\* The invariant holds of a tab that opens, and of every step of it.
LEMMA HooksInvariant ==
  /\ HooksInit => HooksInv
  /\ HooksInv /\ [HooksNext]_hooksVars => HooksInv'
  /\ HooksInv => OwnWritesShow
<1>1. ASSUME HooksInit PROVE HooksInv
  <2>1. DOMAIN copy = EntryFields /\ copy.fetch = Sent /\ copy.data = Nothing
    BY <1>1 DEF HooksInit, RQ!Fresh, RQ!Ask, RQ!Fetching, EntryFields
  <2> QED BY <1>1, <2>1 DEF HooksInit, HooksInv, HooksShape, CopyInv, RQ!Loaded
<1>2. ASSUME HooksInv, [HooksNext]_hooksVars PROVE HooksInv'
  <2>1. CASE UNCHANGED hooksVars
    <3>1. \A s \in Slots : Heals(s)' <=> Heals(s)
      BY <2>1 DEF hooksVars, watching, Heals
    <3>2. Healing' <=> Healing
      BY <3>1, HealingStays
    <3>3. HooksShape'
      BY <1>2, <2>1, FitsNext DEF hooksVars, watching, HooksInv, HooksShape
    <3> QED BY <1>2, <2>1, <3>2, <3>3
            DEF hooksVars, watching, HooksInv, CopyInv, Pend, Displays, Standing, RQ!Loaded, RQ!Fetching
  <2> QED BY <1>2, <2>1, CallsAreQuiet, PagesAndReads, ApplyOutdates, LossIsExcused, LandRepairs
     DEF HooksNext
<1>3. ASSUME HooksInv PROVE OwnWritesShow
  <2> SUFFICES ASSUME ~Standing, Displays(page), Busy = {}, RQ!Loaded(copy), ~RQ!Fetching(copy), ~excused
               PROVE  copy.data = "current"
    BY DEF OwnWritesShow, ShownIsCurrent
  <2>1. ~Healing
    BY DEF Healing, Heals, Busy, Free
  <2> QED BY <1>3, <2>1 DEF HooksInv, CopyInv, Pend
<1> QED BY <1>1, <1>2, <1>3

\* Whatever page it is on, once its requests are answered a tab shows the effect of its own
\* writes (the onSuccess of every mutation of api/hooks.ts), for any number of them at once.
THEOREM OwnWritesStay == CustomerSpec => []OwnWritesShow
<1>1. CustomerInit => HooksInv
  BY HooksInvariant DEF CustomerInit
<1>2. HooksInv /\ [CustomerNext]_customerVars => HooksInv'
  <2>1. [CustomerNext]_customerVars => [HooksNext]_hooksVars
    BY DEF CustomerNext, customerVars
  <2> QED BY <2>1, HooksInvariant
<1>3. HooksInv => OwnWritesShow
  BY HooksInvariant
<1> QED BY <1>1, <1>2, <1>3, PTL DEF CustomerSpec

=============================================================================
