----------------------------- MODULE ReactQuery -----------------------------
(***************************************************************************)
(* One entry of the request cache the frontend keeps (TanStack Query 5, a  *)
(* library: modelled from how api/hooks.ts uses it).  main.tsx builds the  *)
(* client with no options, so data is stale as soon as it lands and every  *)
(* observer that mounts, and every window focus, asks again.               *)
(*                                                                         *)
(* An entry is a record                                                    *)
(*   data    : what the screen shows, Nothing before the first answer      *)
(*   fetch   : Idle, Sent (asked, not answered), or the answer under way   *)
(*   invalid : marked stale by invalidateQueries                           *)
(***************************************************************************)
CONSTANTS Nothing, Idle, Sent

Entry(Data) == [data : Data \cup {Nothing},
                fetch : {Idle, Sent} \cup [got : Data],
                invalid : BOOLEAN]

Fresh == [data |-> Nothing, fetch |-> Idle, invalid |-> FALSE]

Loaded(q) == q.data # Nothing
Fetching(q) == q.fetch # Idle

\* An observer mounts, or the window gets the focus: a fetch already under way is shared.
Ask(q) == IF Fetching(q) THEN q ELSE [q EXCEPT !.fetch = Sent]

\* invalidateQueries on an entry no component observes: it is only marked.
Mark(q) == [q EXCEPT !.invalid = TRUE]

\* invalidateQueries on an observed entry: the fetch under way is dropped and a new one
\* sent, but a FIRST fetch (no data yet) is joined, not restarted.
Invalidate(q) ==
    IF Fetching(q) /\ ~Loaded(q) THEN Mark(q) ELSE [Mark(q) EXCEPT !.fetch = Sent]

\* The server reads its state for the fetch under way.
Answer(q, d) == [q EXCEPT !.fetch = [got |-> d]]

\* The answer is stored; this also clears the mark.
Store(q) == [data |-> q.fetch.got, fetch |-> Idle, invalid |-> FALSE]

\* The last retry failed: the data of before stays.
GiveUp(q) == [q EXCEPT !.fetch = Idle]

\* setQueryData: the data is replaced and the mark cleared; a fetch under way goes on.
Write(q, d) == [q EXCEPT !.data = d, !.invalid = FALSE]
=============================================================================
