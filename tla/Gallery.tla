------------------------------- MODULE Gallery -------------------------------
(***************************************************************************)
(* The photos and the video of one product: the content editor's gallery   *)
(* and video sections and the thumbnail that uploads, and the transactions *)
(* behind them, statement by statement at READ COMMITTED.  A request is    *)
(* the page's own or a colleague's, who works on the same product.         *)
(***************************************************************************)
EXTENDS Naturals, Sequences, FiniteSets, SequencesExt

CONSTANTS
  MaxPhotos,     \* domain.MaxGalleryImages, 3 in the code
  MaxIds,        \* bound: rows product_images ever gets
  Slots,         \* requests the server handles at a time
  Nothing, Idle, Sent

RQ == INSTANCE ReactQuery

VARIABLES media,     \* product_images: id -> kind, sort_order, is_primary
          nextId,
          galleryQ,  \* what the page has read: the photos hero first, and the video's id
          edit,      \* the requests, as transactions
          holder     \* row locks, 0 being the product's row

galleryVars == <<media, nextId, galleryQ, edit, holder>>

Ids == 1..MaxIds
Photos == {i \in DOMAIN media : media[i].kind = "image"}
Heroes == {i \in Photos : media[i].hero}
Videos == DOMAIN media \ Photos

Ahead(i, j) == media[i].pos < media[j].pos \/ (media[i].pos = media[j].pos /\ i < j)

\* ORDER BY is_primary DESC, sort_order, id
Before(i, j) == (i \in Heroes /\ j \notin Heroes) \/ ((i \in Heroes <=> j \in Heroes) /\ Ahead(i, j))
HeroFirst(l) == \A j, k \in DOMAIN l : j < k => Before(l[j], l[k])
Read(l) == [photos |-> [k \in DOMAIN l |-> [id |-> l[k], hero |-> l[k] \in Heroes]],
            video |-> IF Videos = {} THEN 0 ELSE CHOOSE i \in Videos : TRUE]

\* target: the row a deletion or an upload is about; list: what a save posts.
NoEdit == [kind |-> "none", own |-> FALSE, target |-> 0, pos |-> 0, hero |-> 0,
           list |-> <<>>, stage |-> "none"]

GalleryInit ==
    /\ media = <<[kind |-> "image", pos |-> 0, hero |-> TRUE]>>
    /\ nextId = 2
    /\ galleryQ = RQ!Ask(RQ!Fresh)
    /\ edit = [s \in Slots |-> NoEdit]
    /\ holder = [row \in {0} \cup Ids |-> Nothing]

-----------------------------------------------------------------------------
(* What the page sends.                                                    *)

Begin(s, e) ==
    /\ edit[s].kind = "none"
    /\ edit' = [edit EXCEPT ![s] = e]
    /\ UNCHANGED <<media, nextId, galleryQ, holder>>

Shown == galleryQ.data.photos
Pending(kinds) == \E s \in Slots : edit[s].own /\ edit[s].kind \in kinds

Post(s, kind, list) ==
    Begin(s, [NoEdit EXCEPT !.kind = kind, !.own = TRUE, !.list = list, !.stage = "clear"])

\* The radio is not disabled while a save runs.
MakeHero(s) ==
    /\ RQ!Loaded(galleryQ)
    /\ \E k \in DOMAIN Shown : ~Shown[k].hero /\
          Post(s, "save", [j \in DOMAIN Shown |-> [Shown[j] EXCEPT !.hero = (j = k)]])

\* Each photo keeps its is_primary, and handleSaveProductImages wants exactly one.
MoveUp(s) ==
    /\ RQ!Loaded(galleryQ) /\ ~Pending({"save"})
    /\ \E k \in 2..Len(Shown) :
          Post(s, "save", [Shown EXCEPT ![k - 1] = Shown[k], ![k] = Shown[k - 1]])

\* The alt texts of one photo, with the list as it is.
SaveAlt(s) == RQ!Loaded(galleryQ) /\ Shown # <<>> /\ Post(s, "alt", Shown)

DeleteShown(s) ==
    /\ RQ!Loaded(galleryQ) /\ ~Pending({"delete"})
    /\ \E i \in {Shown[k].id : k \in DOMAIN Shown} \cup ({galleryQ.data.video} \ {0}) :
          Begin(s, [NoEdit EXCEPT !.kind = "delete", !.own = TRUE, !.target = i,
                                  !.stage = "delete"])

\* The thumbnail says so itself when three photos are there.
UploadPhoto(s) ==
    /\ RQ!Loaded(galleryQ) /\ ~Pending({"photo"}) /\ Len(Shown) < MaxPhotos
    /\ Begin(s, [NoEdit EXCEPT !.kind = "photo", !.own = TRUE, !.stage = "lock"])

UploadVideo(s) ==
    /\ RQ!Loaded(galleryQ) /\ ~Pending({"video"}) /\ galleryQ.data.video = 0
    /\ Begin(s, [NoEdit EXCEPT !.kind = "video", !.own = TRUE, !.stage = "insert"])

\* A colleague uploads, from a page of their own.
Colleague(s) == Begin(s, [NoEdit EXCEPT !.kind = "photo", !.stage = "lock"])

-----------------------------------------------------------------------------
(* The transactions.                                                       *)

At(s, kinds, stage) == edit[s].kind \in kinds /\ edit[s].stage = stage
Goto(s, stage) == edit' = [edit EXCEPT ![s].stage = stage]
Available(s, row) == holder[row] \in {Nothing, s}

Finish(s, answer) ==
    /\ edit' = [edit EXCEPT ![s] =
         IF edit[s].own
         THEN [NoEdit EXCEPT !.kind = edit[s].kind, !.own = TRUE, !.stage = answer]
         ELSE NoEdit]
    /\ holder' = [row \in DOMAIN holder |-> IF holder[row] = s THEN Nothing ELSE holder[row]]
Refuse(s) == Finish(s, "refused") /\ UNCHANGED <<media, nextId, galleryQ>>

\* Mutant: the photos are counted without the product's row.
LockProductForgotten(s) ==
    /\ At(s, {"photo"}, "lock")
    /\ Goto(s, "insert")
    /\ UNCHANGED <<media, nextId, galleryQ, holder>>

\* AddProductImage
LockProduct(s) ==
    /\ At(s, {"photo"}, "lock") /\ holder[0] = Nothing
    /\ holder' = [holder EXCEPT ![0] = s]
    /\ Goto(s, "insert")
    /\ UNCHANGED <<media, nextId, galleryQ>>

\* INSERT ... SELECT count(*) ... HAVING: counted and, if it is the first, made the hero,
\* in the snapshot of the statement.  AddProductVideo has the unique index instead.
Insert(s) ==
    /\ At(s, {"photo", "video"}, "insert") /\ nextId <= MaxIds
    /\ IF IF edit[s].kind = "photo" THEN Cardinality(Photos) >= MaxPhotos ELSE Videos # {}
       THEN Refuse(s)                       \* ErrGalleryFull, ErrVideoExists
       ELSE /\ edit' = [edit EXCEPT ![s].target = nextId, ![s].stage = "commit",
                 ![s].hero = IF edit[s].kind = "photo" /\ Photos = {} THEN nextId ELSE 0,
                 ![s].pos = IF edit[s].kind = "video" \/ Photos = {} THEN 0
                            ELSE Max({media[i].pos : i \in Photos}) + 1]
            /\ nextId' = nextId + 1
            /\ UNCHANGED <<media, galleryQ, holder>>

\* DeleteProductImage: RETURNING is_primary is the row's as it is once it is waited for.
DeleteRow(s) ==
    LET i == edit[s].target IN
    /\ At(s, {"delete"}, "delete") /\ Available(s, i)
    /\ IF i \notin DOMAIN media
       THEN Refuse(s)                       \* ErrNotFound
       ELSE /\ holder' = [holder EXCEPT ![i] = s]
            /\ Goto(s, IF i \in Heroes THEN "promote" ELSE "commit")
            /\ UNCHANGED <<media, nextId, galleryQ>>

\* The promotion's subquery picks the next photo of its snapshot ...
Promote(s) ==
    LET others == Photos \ {edit[s].target} IN
    /\ At(s, {"delete"}, "promote")
    /\ IF others = {}
       THEN Goto(s, "commit")
       ELSE \E i \in others : /\ \A j \in others \ {i} : Ahead(i, j)
                              /\ edit' = [edit EXCEPT ![s].hero = i, ![s].stage = "crown"]
    /\ UNCHANGED <<media, nextId, galleryQ, holder>>

\* ... and its UPDATE waits for that row: nothing is updated if it is gone by then.
Crown(s) ==
    LET i == edit[s].hero IN
    /\ At(s, {"delete"}, "crown") /\ Available(s, i)
    /\ IF i \notin DOMAIN media
       THEN /\ edit' = [edit EXCEPT ![s].hero = 0, ![s].stage = "commit"]
            /\ UNCHANGED <<media, nextId, galleryQ, holder>>
       ELSE /\ holder' = [holder EXCEPT ![i] = s]
            /\ Goto(s, "commit")
            /\ UNCHANGED <<media, nextId, galleryQ>>

\* SaveProductImages, after the handler's check: every row is locked and loses its flag (in
\* one step here: a circle of waiting ends in a rollback, which Abort stands for).
Clear(s) ==
    /\ At(s, {"save", "alt"}, "clear")
    /\ IF Cardinality({k \in DOMAIN edit[s].list : edit[s].list[k].hero}) # 1
       THEN Refuse(s)                       \* ValidationOnePrimary
       ELSE /\ \A i \in DOMAIN media : Available(s, i)
            /\ holder' = [row \in DOMAIN holder |-> IF row \in DOMAIN media THEN s ELSE holder[row]]
            /\ Goto(s, "apply")
            /\ UNCHANGED <<media, nextId, galleryQ>>

Listed(s) == {edit[s].list[k].id : k \in DOMAIN edit[s].list}
PlaceIn(s, i) == CHOOSE k \in DOMAIN edit[s].list : edit[s].list[k].id = i

\* A photo of the list may be gone.
Apply(s) ==
    /\ At(s, {"save", "alt"}, "apply")
    /\ IF ~(Listed(s) \subseteq Photos)
       THEN Refuse(s)                       \* ErrNotFound
       ELSE Goto(s, "commit") /\ UNCHANGED <<media, nextId, galleryQ, holder>>

Written(s) ==
    LET e == edit[s] IN
    CASE e.kind \in {"photo", "video"} ->
           [i \in DOMAIN media \cup {e.target} |-> IF i # e.target THEN media[i] ELSE
              [kind |-> IF e.kind = "photo" THEN "image" ELSE "video",
               pos |-> e.pos, hero |-> e.hero = i]]
      [] e.kind = "delete" ->
           [i \in DOMAIN media \ {e.target} |-> [media[i] EXCEPT !.hero = @ \/ i = e.hero]]
      [] OTHER ->
           [i \in DOMAIN media |->
              IF i \in Listed(s)
              THEN [media[i] EXCEPT !.pos = PlaceIn(s, i) - 1, !.hero = e.list[PlaceIn(s, i)].hero]
              ELSE [media[i] EXCEPT !.hero = @ /\ holder[i] # s]]

Commit(s) ==
    /\ edit[s].stage = "commit"
    /\ media' = Written(s)
    /\ Finish(s, "ok")
    /\ UNCHANGED <<nextId, galleryQ>>

\* Connection lost, server stopping, or chosen to break a circle of waiting.
Abort(s) ==
    /\ edit[s].stage \notin {"none", "ok", "refused"}
    /\ Refuse(s)

-----------------------------------------------------------------------------
(* The answers.                                                            *)

\* A success drops the cached reads of the product, a refusal leaves them.
LandEdit(s) ==
    /\ edit[s].stage \in {"ok", "refused"}
    /\ galleryQ' = IF edit[s].stage = "ok" THEN RQ!Invalidate(galleryQ) ELSE galleryQ
    /\ edit' = [edit EXCEPT ![s] = NoEdit]
    /\ UNCHANGED <<media, nextId, holder>>

LoadGallery ==
    /\ galleryQ.fetch = Sent
    /\ \E l \in SetToSeqs(Photos) :
          HeroFirst(l) /\ galleryQ' = RQ!Store(RQ!Answer(galleryQ, Read(l)))
    /\ UNCHANGED <<media, nextId, edit, holder>>

FocusGallery ==
    /\ ~RQ!Fetching(galleryQ)
    /\ galleryQ' = RQ!Ask(galleryQ)
    /\ UNCHANGED <<media, nextId, edit, holder>>

GalleryNext ==
    \/ \E s \in Slots :
         \/ MakeHero(s) \/ MoveUp(s) \/ SaveAlt(s) \/ DeleteShown(s) \/ UploadPhoto(s)
         \/ UploadVideo(s) \/ Colleague(s)
         \/ LockProduct(s) \/ Insert(s) \/ DeleteRow(s) \/ Promote(s) \/ Crown(s)
         \/ Clear(s) \/ Apply(s) \/ Commit(s) \/ Abort(s) \/ LandEdit(s)
    \/ LoadGallery
    \/ FocusGallery

-----------------------------------------------------------------------------
(* Properties *)

\* However uploads, saves and deletions overlap, a product never holds more photos than its
\* gallery shows ("two concurrent uploads could each count 2 and both insert a 3rd"), and the
\* index on is_primary never meets a second hero.
GalleryFits == Cardinality(Photos) <= MaxPhotos /\ Cardinality(Heroes) <= 1

\* A gallery with photos has its hero: a deletion promotes another, "otherwise deleting the
\* hero leaves a gallery that renders no hero at all" (DeleteProductImage).
GalleryHasHero == Photos # {} => Heroes # {}
=============================================================================
