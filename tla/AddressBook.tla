---------------------------- MODULE AddressBook ----------------------------
(***************************************************************************)
(* The addresses of one customer on the server, beside the requests of     *)
(* every tab and phone the account is open on: new entries, edits ("make   *)
(* default" is one), deletions, and checkouts, which save the address they *)
(* deliver to.  A page may ask for an entry that is already gone; an id is *)
(* then used again, which lets a late request meet an entry it did not     *)
(* mean.  Of an entry only its default flag matters here.                  *)
(***************************************************************************)
EXTENDS Naturals, FiniteSets

CONSTANTS Ids, Slots, Nothing

VARIABLES book,     \* the entries, as committed
          draft,    \* what a transaction under way has made of an entry, or holds
          bookSent  \* the requests under way

bookVars == <<book, draft, bookSent>>

Rows == {"none", "plain", "default"}
Kept(b) == {i \in Ids : b[i] # "none"}

Unheld == [by |-> Nothing, row |-> "none"]
Free == [stage |-> "free"]
Busy == {s \in Slots : bookSent[s] # Free}

BookInit ==
    /\ book \in {b \in [Ids -> Rows] : Cardinality({i \in Ids : b[i] = "default"}) <= 1}
    /\ draft = [i \in Ids |-> Unheld]
    /\ bookSent = [s \in Slots |-> Free]

-----------------------------------------------------------------------------
(* The requests *)

Send(op, i, row) ==
    \E s \in Slots \ Busy :
        /\ bookSent' = [bookSent EXCEPT ![s] =
              [stage |-> "sent", op |-> op, id |-> i, row |-> row, aim |-> Nothing]]
        /\ UNCHANGED <<book, draft>>

Create == \E row \in {"plain", "default"} : Send("create", Nothing, row)
Update(i) == \E row \in {"plain", "default"} : Send("update", i, row)
Remove(i) == Send("delete", i, "none")
Checkout == Send("checkout", Nothing, "default")

-----------------------------------------------------------------------------
(* Each write is a transaction of several statements *)

Held(i) == draft[i].by # Nothing
Drafted(s, i) == draft[i].by = s
Settled(s) == [i \in Ids |-> IF Drafted(s, i) THEN Unheld ELSE draft[i]]

At(s, stages) == bookSent[s] # Free /\ bookSent[s].stage \in stages
Advance(s, stage) == bookSent' = [bookSent EXCEPT ![s].stage = stage]
Answer(s) == bookSent' = [bookSent EXCEPT ![s] = Free]
Write(s, i, row) == draft' = [draft EXCEPT ![i] = [by |-> s, row |-> row]]
RollBack(s) == draft' = Settled(s) /\ Answer(s)

\* CreateAddress asks whether the book has any entry: the first becomes the default
\* whatever the form says.
CountEntries(s) ==
    /\ At(s, {"sent"}) /\ bookSent[s].op = "create"
    /\ bookSent' = [bookSent EXCEPT ![s].stage = "counted",
                                   ![s].row = IF Kept(book) = {} THEN "default" ELSE @]
    /\ UNCHANGED <<book, draft>>

\* The statement that clears the old default picks its row in its own snapshot ...
FindDefault(s) ==
    LET w == bookSent[s]
        old == {i \in Ids : book[i] = "default" /\ (w.op = "update" => i # w.id)} IN
    /\ s \in Busy
    /\ w.op \in {"create", "update"} /\ w.row = "default"
    /\ w.stage = IF w.op = "update" THEN "sent" ELSE "counted"
    /\ IF old = {} THEN Advance(s, "cleared")
       ELSE \E i \in old :
              bookSent' = [bookSent EXCEPT ![s].stage = "clearing", ![s].aim = i]
    /\ UNCHANGED <<book, draft>>

\* ... waits for whoever is writing that row, and looks at it again.
ClearDefault(s) ==
    LET i == bookSent[s].aim IN
    /\ At(s, {"clearing"})
    /\ ~Held(i)
    /\ IF book[i] = "default" THEN Write(s, i, "plain") ELSE UNCHANGED draft
    /\ Advance(s, "cleared")
    /\ UNCHANGED book

\* The entry written next: created at once, or, if it is an edit, once its row is held.
Ready(s) ==
    LET w == bookSent[s] IN
    /\ s \in Busy
    /\ w.stage = IF w.row = "default" THEN "cleared"
                 ELSE IF w.op = "create" THEN "counted" ELSE "sent"

HoldEntry(s) ==
    LET i == bookSent[s].id IN
    /\ Ready(s) /\ bookSent[s].op = "update"
    /\ ~Held(i)
    /\ IF book[i] = "none"
       THEN RollBack(s)
       ELSE Write(s, i, book[i]) /\ Advance(s, "held")
    /\ UNCHANGED book

\* Mutant: the index is not unique.
TakenNever(s, i) == FALSE

\* The unique index over the defaults of one customer: an entry of a transaction under way
\* must be waited for, any other is a violation.
Contested(s, i) ==
    \E j \in Ids \ {i} : /\ Held(j) /\ ~Drafted(s, j)
                         /\ "default" \in {draft[j].row, book[j]}
Taken(s, i) ==
    \E j \in Ids \ {i} :
        \/ ~Held(j) /\ book[j] = "default"
        \/ Drafted(s, j) /\ draft[j].row = "default"
Unused(i) == book[i] = "none" /\ ~Held(i)

PutEntry(s) ==
    LET w == bookSent[s] IN
    /\ s \in Busy
    /\ \E i \in Ids :
        /\ \/ w.op = "create" /\ Ready(s) /\ Unused(i)
           \/ w.op = "update" /\ At(s, {"held"}) /\ i = w.id
        /\ w.row = "default" => ~Contested(s, i)
        /\ IF w.row = "default" /\ Taken(s, i)
           THEN RollBack(s)
           ELSE Write(s, i, w.row) /\ Advance(s, "written")
        /\ UNCHANGED book

\* A checkout makes the default entry, there or not, the address it delivers to.
Upsert(s) ==
    /\ At(s, {"sent"}) /\ bookSent[s].op = "checkout"
    /\ \E i \in Ids :
          /\ \/ ~Held(i) /\ book[i] = "default"
             \/ Unused(i) /\ ~Taken(s, i)
          /\ ~Contested(s, i)
          /\ Write(s, i, "default")
    /\ Advance(s, "written")
    /\ UNCHANGED book

Commit(s) ==
    /\ At(s, {"written"})
    /\ book' = [i \in Ids |-> IF Drafted(s, i) THEN draft[i].row ELSE book[i]]
    /\ draft' = Settled(s)
    /\ Answer(s)

\* DeleteAddress is one statement; an entry already gone is not found.
Delete(s) ==
    LET i == bookSent[s].id IN
    /\ At(s, {"sent"}) /\ bookSent[s].op = "delete"
    /\ ~Held(i)
    /\ IF book[i] = "none"
       THEN RollBack(s) /\ UNCHANGED book
       ELSE /\ book' = [book EXCEPT ![i] = "none"]
            /\ Answer(s)
            /\ UNCHANGED draft

\* Any other end: a validation error, a failed statement, a deadlock broken, a request lost.
Fail(s) ==
    /\ s \in Busy
    /\ RollBack(s)
    /\ UNCHANGED book

-----------------------------------------------------------------------------
BookNext ==
    \/ Create
    \/ \E i \in Ids : Update(i) \/ Remove(i)
    \/ Checkout
    \/ \E s \in Slots :
          \/ CountEntries(s) \/ FindDefault(s) \/ ClearDefault(s)
          \/ HoldEntry(s) \/ PutEntry(s) \/ Delete(s) \/ Upsert(s)
          \/ Commit(s) \/ Fail(s)

-----------------------------------------------------------------------------
\* At most one entry is the default, however the transactions of creations, edits, "make
\* default" and checkouts cross.
OneDefault == Cardinality({i \in Ids : book[i] = "default"}) <= 1

=============================================================================
