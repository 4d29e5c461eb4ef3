-------------------------------- MODULE Catalog --------------------------------
(***************************************************************************)
(* The tree of categories, the listings filed in it, and the pictures the  *)
(* listings show.                                                          *)
(*                                                                         *)
(* Admins create, move and delete categories; a deleted category keeps its *)
(* row and is inactive.  Sellers publish, edit and delete listings; the    *)
(* controller uploads the pictures before the use case runs and takes them *)
(* back when it fails.  A handler is a sequence of steps that end at its   *)
(* awaits, each with one access to a table or to the storage.              *)
(*                                                                         *)
(* Names, slugs, icons and the order of categories are left out, and so is *)
(* what a listing says besides its category, its delivery and its picture: *)
(* a request whose rules fail there is one that is Refused.  One picture   *)
(* stands for up to five and for the screenshot of the map.  The status of *)
(* a listing and its open trades are in ChatTransactions, the filter of    *)
(* its text in Moderation, who is an admin in Accounts.                    *)
(***************************************************************************)
EXTENDS Integers, FiniteSets

CONSTANTS
    Categories,  \* the ids of categories
    Listings,    \* the ids of listings
    Pictures,    \* the objects the storage can hold
    Slots,       \* handlers that can be in flight at the same time
    Inputs,      \* the inputs sellers give
    None,        \* no row, no parent, no picture, nobody
    MayCrash     \* can a process die between two steps of a handler?

ASSUME NoneAssumption == None \notin Categories \cup Listings \cup Pictures
ASSUME CategoriesAssumption == IsFiniteSet(Categories)
ASSUME SwitchAssumption == MayCrash \in BOOLEAN

\* CreateProductDto, UpdateProductDto: "keep" and None are fields left out.  A picture
\* is a file that comes with the request, or the URL of a picture the client knows.
Input == [category : Categories \cup {None},
          picture : Pictures \cup {None}, uploaded : BOOLEAN,
          available : {"yes", "no", "keep"}, payer : {"someone", "nobody", "keep"}]

ASSUME InputsAssumption == Inputs \subseteq Input

VARIABLES
    category,    \* categories: id -> row
    listing,     \* listings with their images: id -> row
    stored,      \* the pictures in the storage
    request,     \* slot -> the handler in flight and its local variables
    overlapped,  \* history: have two handlers ever been in flight together?
    misread      \* history: did reading a row back fail after its commit?

tables == <<category, listing, stored>>
histories == <<overlapped, misread>>
vars == <<tables, request, histories>>

\* A row of categories.
Category == [active : BOOLEAN, parent : Categories \cup {None}]

\* isDeliveryAvailable and deliveryFeePayer: BUYER and SELLER are alike.
Delivery == [available : {"yes", "no"}, payer : {"someone", "nobody"}]

\* A row of listings and its listing_images.
Listing == [category : Categories, delivery : Delivery,
            picture : Pictures \cup {None}, deleted : BOOLEAN]

-----------------------------------------------------------------------------
(* Handlers in flight                                                        *)

Idle == [step |-> "idle"]

Request ==
    {Idle}
    \cup [step : {"category.insert"}, parent : Categories \cup {None}]
    \cup [step : {"category.walk"}, category : Categories, parent : Categories \cup {None},
          cursor : Categories \cup {None}]
    \cup [step : {"category.move"}, category : Categories, parent : Categories \cup {None}]
    \cup [step : {"category.children", "category.used", "category.drop"}, category : Categories]
    \cup [step : {"listing.file", "listing.insert"}, dto : Inputs]
    \cup [step : {"listing.read"}, listing : Listings, dto : Inputs]
    \cup [step : {"listing.refile", "listing.write"}, listing : Listings, dto : Inputs,
          old : Listing]
    \cup [step : {"listing.revert"}, picture : Pictures]
    \cup [step : {"listing.delete"}, listing : Listings]

At(s, step) == request[s].step = step
Continue(s, r) == request' = [request EXCEPT ![s] = r]
Finish(s) == Continue(s, Idle)

\* A new handler: does it overlap one that is in flight?
Start(s, r) ==
    /\ At(s, "idle")
    /\ Continue(s, r)
    /\ overlapped' = (overlapped \/ \E t \in Slots \ {s} : ~At(t, "idle"))
    /\ UNCHANGED misread

Exists(c) == c \in DOMAIN category
IsFiled(i) == i \in DOMAIN listing
IsOffered(i) == IsFiled(i) /\ ~listing[i].deleted

\* buildSearchWhereSql: what the public search looks for
Matches(i) == IsOffered(i) /\ category[listing[i].category].active

\* What it finds, on one page or another
Searched == {i \in DOMAIN listing : Matches(i)}

Init ==
    /\ category = [c \in {} |-> 0]
    /\ listing = [i \in {} |-> 0]
    /\ stored = {}
    /\ request = [s \in Slots |-> Idle]
    /\ overlapped = FALSE
    /\ misread = FALSE

-----------------------------------------------------------------------------
(* Categories                                                                *)

\* CreateCategoryUseCase up to its checks: an inactive parent will do.
BeginCreate(s, p) ==
    /\ p = None \/ Exists(p)
    /\ Start(s, [step |-> "category.insert", parent |-> p])
    /\ UNCHANGED tables

InsertCategory(s, c) ==
    /\ At(s, "category.insert")
    /\ ~Exists(c)
    /\ category' = [d \in DOMAIN category \cup {c} |->
                      IF d = c THEN [active |-> TRUE, parent |-> request[s].parent]
                      ELSE category[d]]
    /\ Finish(s)
    /\ UNCHANGED <<listing, stored, histories>>

\* UpdateCategoryUseCase with a parentId: null, or a category other than itself.
BeginMove(s, c, p) ==
    /\ Exists(c)
    /\ p # c
    /\ Start(s, [step |-> "category.walk", category |-> c, parent |-> p, cursor |-> p])
    /\ UNCHANGED tables

\* Mutant: only the parent itself is looked at, not what is above it.
WalkOneStep(s) ==
    /\ At(s, "category.walk")
    /\ LET r == request[s]
       IN IF r.cursor # None /\ (r.cursor = r.category \/ ~Exists(r.cursor))
          THEN Finish(s)
          ELSE Continue(s, [step |-> "category.move", category |-> r.category,
                            parent |-> r.parent])
    /\ UNCHANGED <<tables, histories>>

\* assertNoCycle: one turn of its loop, or the end of it.
Walk(s) ==
    /\ At(s, "category.walk")
    /\ LET r == request[s]
       IN CASE r.cursor = None ->
                 Continue(s, [step |-> "category.move", category |-> r.category,
                              parent |-> r.parent])
            [] r.cursor = r.category \/ (r.cursor # None /\ ~Exists(r.cursor)) ->
                 Finish(s)
            [] OTHER ->
                 Continue(s, [r EXCEPT !.cursor = category[r.cursor].parent])
    /\ UNCHANGED <<tables, histories>>

MoveCategory(s) ==
    /\ At(s, "category.move")
    /\ LET r == request[s]
       IN category' = [category EXCEPT ![r.category].parent = r.parent]
    /\ Finish(s)
    /\ UNCHANGED <<listing, stored, histories>>

\* DeleteCategoryUseCase: the category exists, ...
BeginDrop(s, c) ==
    /\ Exists(c)
    /\ Start(s, [step |-> "category.children", category |-> c])
    /\ UNCHANGED tables

\* ... nothing is below it (findChildren), active or not, ...
ReadChildren(s) ==
    /\ At(s, "category.children")
    /\ LET c == request[s].category
       IN IF \E d \in DOMAIN category : category[d].parent = c
          THEN Finish(s)
          ELSE Continue(s, [step |-> "category.used", category |-> c])
    /\ UNCHANGED <<tables, histories>>

\* Mutant: whether a listing is in it is not asked.
SkipUsed(s) ==
    /\ At(s, "category.used")
    /\ Continue(s, [step |-> "category.drop", category |-> request[s].category])
    /\ UNCHANGED <<tables, histories>>

\* ... and no listing is in it (isUsedByListings).
ReadUsed(s) ==
    /\ At(s, "category.used")
    /\ LET c == request[s].category
       IN IF \E i \in DOMAIN listing : IsOffered(i) /\ listing[i].category = c
          THEN Finish(s)
          ELSE Continue(s, [step |-> "category.drop", category |-> c])
    /\ UNCHANGED <<tables, histories>>

DropCategory(s) ==
    /\ At(s, "category.drop")
    /\ category' = [category EXCEPT ![request[s].category].active = FALSE]
    /\ Finish(s)
    /\ UNCHANGED <<listing, stored, histories>>

-----------------------------------------------------------------------------
(* Listings                                                                  *)

\* The category is there and active (assertActiveCategory).
MayFile(c) == Exists(c) /\ category[c].active

\* Mutant: all the pictures of the input are taken back, uploaded or not.
FailAndRevertAll(s) ==
    Continue(s, IF request[s].dto.picture # None
                THEN [step |-> "listing.revert", picture |-> request[s].dto.picture]
                ELSE Idle)

\* What a failed request goes on with: the controller takes back what it uploaded.
Fail(s) ==
    Continue(s, IF request[s].dto.uploaded
                THEN [step |-> "listing.revert", picture |-> request[s].dto.picture]
                ELSE Idle)

\* The delivery after an edit (mergeListingDeliveryForUpdate).
Merged(old, dto) ==
    [available |-> IF dto.available = "keep" THEN old.available ELSE dto.available,
     payer |-> CASE dto.available = "no" -> "nobody"
                 [] dto.available # "no" /\ dto.payer # "keep" -> dto.payer
                 [] OTHER -> old.payer]

\* create and updateBySeller read the row back after their transaction; when that
\* fails the request fails, and its pictures are taken back from a listing that shows
\* them (outside MayCrash the database answers).
Written(s) ==
    \/ Finish(s) /\ UNCHANGED misread
    \/ MayCrash /\ request[s].dto.uploaded /\ Fail(s) /\ misread' = TRUE

\* Somebody pays for a delivery exactly when there is one (assertProductInputRules).
Consistent(d) == (d.available = "yes") = (d.payer = "someone")

\* The pictures that handlers in flight have uploaded
InHand(t) ==
    CASE "dto" \in DOMAIN request[t] -> {request[t].dto.picture}
      [] At(t, "listing.revert") -> {request[t].picture}
      [] OTHER -> {}

\* The files of the request are stored before the use case runs, under a new name; a
\* URL is one that some listing shows.
Upload(dto) ==
    /\ IF dto.uploaded
       THEN dto.picture \in Pictures \ (stored \cup UNION {InHand(t) : t \in Slots})
       ELSE dto.picture \in {None} \cup {listing[i].picture : i \in DOMAIN listing}
    /\ stored' = IF dto.uploaded THEN stored \cup {dto.picture} ELSE stored

\* The controller's create: the category and whether there is delivery are required.
BeginPublish(s, dto) ==
    /\ dto.category # None
    /\ dto.available # "keep" /\ dto.payer # "keep"
    /\ Upload(dto)
    /\ Start(s, [step |-> "listing.file", dto |-> dto])
    /\ UNCHANGED <<category, listing>>

\* CreateProductUseCase: the category, then the rules of the input.
FilePublished(s) ==
    /\ At(s, "listing.file")
    /\ LET dto == request[s].dto
       IN IF MayFile(dto.category)
             /\ Consistent([available |-> dto.available, payer |-> dto.payer])
          THEN Continue(s, [step |-> "listing.insert", dto |-> dto])
          ELSE Fail(s)
    /\ UNCHANGED <<tables, histories>>

InsertListing(s, i) ==
    /\ At(s, "listing.insert")
    /\ ~IsFiled(i)
    /\ LET dto == request[s].dto
           row == [category |-> dto.category, picture |-> dto.picture, deleted |-> FALSE,
                   delivery |-> [available |-> dto.available, payer |-> dto.payer]]
       IN listing' = [j \in DOMAIN listing \cup {i} |-> IF j = i THEN row ELSE listing[j]]
    /\ Written(s)
    /\ UNCHANGED <<category, stored, overlapped>>

\* The controller's update.
BeginEdit(s, i, dto) ==
    /\ IsFiled(i)
    /\ Upload(dto)
    /\ Start(s, [step |-> "listing.read", listing |-> i, dto |-> dto])
    /\ UNCHANGED <<category, listing>>

\* UpdateProductUseCase: findByIdForSeller
ReadListing(s) ==
    /\ At(s, "listing.read")
    /\ LET r == request[s]
       IN IF IsOffered(r.listing)
          THEN Continue(s, [step |-> "listing.refile", listing |-> r.listing, dto |-> r.dto,
                            old |-> listing[r.listing]])
          ELSE Fail(s)
    /\ UNCHANGED <<tables, histories>>

\* ... then the category, if another is asked for, and the rules of the input.
RefileListing(s) ==
    /\ At(s, "listing.refile")
    /\ LET r == request[s]
       IN IF /\ r.dto.category # None => MayFile(r.dto.category)
             /\ ~(r.dto.available = "no" /\ r.dto.payer = "someone")
             /\ Consistent(Merged(r.old.delivery, r.dto))
          THEN Continue(s, [r EXCEPT !.step = "listing.write"])
          ELSE Fail(s)
    /\ UNCHANGED <<tables, histories>>

\* The row after an edit: what the input leaves out is not written; of the delivery
\* both fields are, or none.
Edited(row, r) ==
    [row EXCEPT !.category = IF r.dto.category = None THEN @ ELSE r.dto.category,
                !.picture = IF r.dto.picture = None THEN @ ELSE r.dto.picture,
                !.delivery = IF r.dto.available = "keep" /\ r.dto.payer = "keep" THEN @
                             ELSE Merged(r.old.delivery, r.dto)]

\* Mutant: of the delivery only the fields of the input are written.
WriteGivenFields(s) ==
    /\ At(s, "listing.write")
    /\ LET r == request[s]
           given(row) ==
             [Edited(row, r) EXCEPT
                !.delivery = [available |-> IF r.dto.available = "keep" THEN row.delivery.available
                                            ELSE r.dto.available,
                              payer |-> IF r.dto.payer = "keep" THEN row.delivery.payer
                                        ELSE r.dto.payer]]
       IN IF IsOffered(r.listing)
          THEN /\ listing' = [listing EXCEPT ![r.listing] = given(@)]
               /\ Written(s)
          ELSE UNCHANGED <<listing, misread>> /\ Fail(s)
    /\ UNCHANGED <<category, stored, overlapped>>

\* updateBySeller: a listing that was deleted meanwhile fails the request.
WriteListing(s) ==
    /\ At(s, "listing.write")
    /\ LET r == request[s]
       IN IF IsOffered(r.listing)
          THEN /\ listing' = [listing EXCEPT ![r.listing] = Edited(@, r)]
               /\ Written(s)
          ELSE UNCHANGED <<listing, misread>> /\ Fail(s)
    /\ UNCHANGED <<category, stored, overlapped>>

\* A rule fails that the model leaves out: a blank title, a forbidden word, a
\* meeting that an open trade fixes, ...
Refuse(s) ==
    /\ request[s].step \in {"listing.file", "listing.insert", "listing.refile"}
    /\ Fail(s)
    /\ UNCHANGED <<tables, histories>>

\* revertUploadedPublicUrls
Revert(s) ==
    /\ At(s, "listing.revert")
    /\ stored' = stored \ {request[s].picture}
    /\ Finish(s)
    /\ UNCHANGED <<category, listing, histories>>

\* DeleteProductUseCase up to its checks, ...
BeginDelete(s, i) ==
    /\ IsOffered(i)
    /\ Start(s, [step |-> "listing.delete", listing |-> i])
    /\ UNCHANGED tables

\* ... and softDeleteBySeller: the pictures stay in the storage.
DeleteListing(s) ==
    /\ At(s, "listing.delete")
    /\ listing' = IF IsOffered(request[s].listing)
                  THEN [listing EXCEPT ![request[s].listing].deleted = TRUE]
                  ELSE listing
    /\ Finish(s)
    /\ UNCHANGED <<category, stored, histories>>

\* A process dies: the handler is gone, what it wrote and uploaded stays.
Crash(s) ==
    /\ MayCrash
    /\ ~At(s, "idle")
    /\ Finish(s)
    /\ UNCHANGED <<tables, histories>>

-----------------------------------------------------------------------------
(* Specification                                                             *)

\* AdminCategoriesController
CreateRoute(s) == \E p \in Categories \cup {None} : BeginCreate(s, p)
MoveRoute(s) == \E c \in Categories, p \in Categories \cup {None} : BeginMove(s, c, p)
DropRoute(s) == \E c \in Categories : BeginDrop(s, c)

\* ClientProductsController
PublishRoute(s) == \E dto \in Inputs : BeginPublish(s, dto)
EditRoute(s) == \E i \in Listings, dto \in Inputs : BeginEdit(s, i, dto)
DeleteRoute(s) == \E i \in Listings : BeginDelete(s, i)

Begin(s) ==
    \/ CreateRoute(s) \/ MoveRoute(s) \/ DropRoute(s)
    \/ PublishRoute(s) \/ EditRoute(s) \/ DeleteRoute(s)

Step(s) ==
    \/ \E c \in Categories : InsertCategory(s, c)
    \/ Walk(s) \/ MoveCategory(s)
    \/ ReadChildren(s) \/ ReadUsed(s) \/ DropCategory(s)
    \/ FilePublished(s) \/ \E i \in Listings : InsertListing(s, i)
    \/ ReadListing(s) \/ RefileListing(s) \/ WriteListing(s)
    \/ Refuse(s) \/ Revert(s) \/ DeleteListing(s)

Next == \E s \in Slots : Begin(s) \/ Step(s) \/ Crash(s)

Spec == Init /\ [][Next]_vars

TypeOK ==
    /\ DOMAIN category \subseteq Categories
    /\ \A c \in DOMAIN category : category[c] \in Category
    /\ DOMAIN listing \subseteq Listings
    /\ \A i \in DOMAIN listing : listing[i] \in Listing
    /\ stored \subseteq Pictures
    /\ request \in [Slots -> Request]
    /\ overlapped \in BOOLEAN /\ misread \in BOOLEAN

(***************************************************************************)
(* What the catalogue promises.                                            *)
(***************************************************************************)

\* What is above c: the categories that n steps up from it lead to
Above(c) ==
    LET up[n \in 0..Cardinality(Categories)] ==
          IF n = 0 THEN c
          ELSE IF up[n-1] = None \/ ~Exists(up[n-1]) THEN None ELSE category[up[n-1]].parent
    IN {up[n] : n \in 1..Cardinality(Categories)}

\* As long as no two handlers are in flight together, no category is above itself: the
\* loop of assertNoCycle sees every category that a move would put above the moved one.
\* (Two moves that race can each pass it and close a circle; then the loop of a later
\* one does not end.)
CategoriesAreATree ==
    ~overlapped => \A c \in DOMAIN category : c \notin Above(c)

\* As long as no two handlers are in flight together, the search finds every listing
\* that is offered, although it asks for an active category: a category is not deleted
\* while listings are in it, and a listing is not moved to a deleted one.
ListingsAreFiled ==
    ~overlapped => {i \in DOMAIN listing : IsOffered(i)} \subseteq Searched

\* Whatever handlers race, a listing names who pays for delivery exactly when it offers
\* it: an edit decides on a row it read before its awaits, and writes both fields.
DeliveryIsConsistent ==
    \A i \in DOMAIN listing : Consistent(listing[i].delivery)

\* Whatever handlers race, fail or die, the picture a listing shows is in the storage:
\* a failed request takes back what it has uploaded and nothing that others show.  The
\* exception is a request that fails after its commit.
PicturesAreStored ==
    ~misread => \A i \in DOMAIN listing : listing[i].picture \in stored \cup {None}

=============================================================================
