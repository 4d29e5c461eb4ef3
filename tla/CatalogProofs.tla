----------------------------- MODULE CatalogProofs -----------------------------
(***************************************************************************)
(* What holds of the catalogue for every number of categories, listings,   *)
(* pictures and handlers in flight, and for every set of inputs.           *)
(*                                                                         *)
(* Inv is inductive: a handler that has passed its checks carries an input *)
(* whose delivery is consistent, merged with the row it read if it edits.  *)
(* PicInv is the argument about pictures: an uploaded picture has one      *)
(* owner until a listing shows it, and only an owner takes it back.        *)
(* TreeInv is the argument about the tree and the filing, for a handler    *)
(* that is alone: the loop over the parents has followed them up to its    *)
(* cursor, so that what a move joins was not joined before.                *)
(***************************************************************************)
EXTENDS Catalog, FiniteSetTheorems, WellFoundedInduction, TLAPS

DtoSteps == {"listing.file", "listing.insert", "listing.read", "listing.refile",
             "listing.write"}

\* What a handler with the local variables q has checked
Checked(q) ==
    /\ q.step \in DtoSteps => (q.dto.uploaded => q.dto.picture \in Pictures)
    /\ q.step \in {"listing.file", "listing.insert"} =>
          q.dto.category # None /\ q.dto.available # "keep" /\ q.dto.payer # "keep"
    /\ q.step = "listing.insert" =>
          Consistent([available |-> q.dto.available, payer |-> q.dto.payer])
    /\ q.step = "listing.write" => Consistent(Merged(q.old.delivery, q.dto))

TablesOK ==
    /\ DOMAIN category \subseteq Categories
    /\ \A c \in DOMAIN category : category[c] \in Category
    /\ DOMAIN listing \subseteq Listings
    /\ \A i \in DOMAIN listing : listing[i] \in Listing
    /\ stored \subseteq Pictures
    /\ overlapped \in BOOLEAN /\ misread \in BOOLEAN
    /\ DeliveryIsConsistent

Inv ==
    /\ TablesOK
    /\ request \in [Slots -> Request]
    /\ \A s \in Slots : Checked(request[s])

\* The handler q has uploaded the picture p, and no listing shows it yet ...
Owns(q, p) ==
    \/ q.step \in DtoSteps /\ q.dto.uploaded /\ q.dto.picture = p
    \/ q.step = "listing.revert" /\ q.picture = p

\* ... or it will make a listing show a picture that another one showed.
Borrows(q, p) == q.step \in DtoSteps /\ ~q.dto.uploaded /\ q.dto.picture = p

Shown(p) == \E i \in DOMAIN listing : listing[i].picture = p

PicInv ==
    ~misread =>
        \A p \in Pictures :
            /\ Shown(p) \/ (\E s \in Slots : Borrows(request[s], p)) =>
                  p \in stored /\ \A s \in Slots : ~Owns(request[s], p)
            /\ \A s \in Slots : Owns(request[s], p) =>
                  p \in stored /\ \A t \in Slots : Owns(request[t], p) => s = t


-----------------------------------------------------------------------------
(* Local variables                                                           *)

\* Which local variables a handler has depends on its step only.
LEMMA RequestFields ==
    ASSUME NEW q \in Request
    PROVE  /\ q.step \in DtoSteps => q.dto \in Input /\ q.dto \in Inputs
           /\ q.step \in {"listing.file", "listing.insert"} =>
                 q = [step |-> q.step, dto |-> q.dto]
           /\ q.step = "listing.read" =>
                 q = [step |-> q.step, listing |-> q.listing, dto |-> q.dto]
           /\ q.step \in {"listing.refile", "listing.write"} =>
                 /\ q.old \in Listing
                 /\ q = [step |-> q.step, listing |-> q.listing, dto |-> q.dto, old |-> q.old]
           /\ q.step \in {"listing.read", "listing.refile", "listing.write",
                          "listing.delete"} => q.listing \in Listings
           /\ q.step = "listing.revert" => q.picture \in Pictures
           /\ q.step \in {"category.insert", "category.walk", "category.move"} =>
                 q.parent \in Categories \cup {None}
           /\ q.step \in {"category.walk", "category.move", "category.children",
                          "category.used", "category.drop"} => q.category \in Categories
           /\ q.step = "category.walk" =>
                 /\ q.cursor \in Categories \cup {None}
                 /\ q = [step |-> q.step, category |-> q.category, parent |-> q.parent,
                         cursor |-> q.cursor]
BY InputsAssumption DEF Request, Idle, DtoSteps

\* A handler of categories, or one that is done, has checked no input.
LEMMA OtherChecked ==
    ASSUME NEW q, q.step \notin DtoSteps
    PROVE  Checked(q) /\ \A p : ~Borrows(q, p) /\ (Owns(q, p) => q.step = "listing.revert")
BY DEF Checked, DtoSteps, Borrows, Owns

LEMMA IdleIsRequest == Idle \in Request /\ Idle.step = "idle" /\ "idle" \notin DtoSteps
BY DEF Request, Idle, DtoSteps

-----------------------------------------------------------------------------
(* Two ways in which a handler goes on                                       *)

\* The handler s goes on with q; the tables are as they should be.
LEMMA HandlerStep ==
    ASSUME Inv, NEW s \in Slots, NEW q \in Request, Checked(q), Continue(s, q), TablesOK'
    PROVE  Inv'
BY DEF Inv, Continue

\* ... and it has no more pictures in hand than before, nor do listings show more.
LEMMA LessInHand ==
    ASSUME Inv, PicInv, NEW s \in Slots, NEW q \in Request, Continue(s, q),
           UNCHANGED <<stored, misread>>,
           \A p \in Pictures : /\ Owns(q, p) => Owns(request[s], p)
                               /\ Borrows(q, p) => Borrows(request[s], p)
                               /\ Shown(p)' => Shown(p)
    PROVE  PicInv'
<1>1. \A t \in Slots : request'[t] = IF t = s THEN q ELSE request[t]
  BY DEF Continue, Inv
<1>2. \A t \in Slots, p \in Pictures :
         /\ Owns(request'[t], p) => Owns(request[t], p)
         /\ Borrows(request'[t], p) => Borrows(request[t], p)
  BY <1>1
<1> QED BY <1>2 DEF PicInv

\* What the steps that leave the tables alone have in common
LEMMA QuietStep ==
    ASSUME Inv, PicInv, NEW s \in Slots, NEW q \in Request, Checked(q), Continue(s, q),
           UNCHANGED tables, misread' = misread, overlapped' \in BOOLEAN,
           \A p \in Pictures : /\ Owns(q, p) => Owns(request[s], p)
                               /\ Borrows(q, p) => Borrows(request[s], p)
    PROVE  Inv' /\ PicInv'
<1>1. TablesOK'
  BY DEF Inv, TablesOK, tables, DeliveryIsConsistent
<1>2. \A p \in Pictures : Shown(p)' => Shown(p)
  BY DEF tables, Shown
<1> QED BY <1>1, <1>2, HandlerStep, LessInHand DEF tables

\* A handler of categories goes on with another step of theirs, or ends.
LEMMA QuietCategoryStep ==
    ASSUME Inv, PicInv, NEW s \in Slots, NEW q \in Request,
           q.step \notin DtoSteps, q.step # "listing.revert", Continue(s, q),
           UNCHANGED tables, misread' = misread, overlapped' \in BOOLEAN
    PROVE  Inv' /\ PicInv'
<1>1. Checked(q) /\ \A p \in Pictures : ~Owns(q, p) /\ ~Borrows(q, p)
  BY OtherChecked
<1> QED BY <1>1, QuietStep

\* What a failed request goes on with takes back only what it has uploaded.
LEMMA FailNext ==
    ASSUME Inv, NEW s \in Slots, Fail(s), request[s].step \in DtoSteps
    PROVE  \E q \in Request :
              /\ Continue(s, q) /\ Checked(q)
              /\ \A p \in Pictures : /\ Owns(q, p) => Owns(request[s], p)
                                     /\ ~Borrows(q, p)
<1>1. CASE request[s].dto.uploaded
  <2> DEFINE q == [step |-> "listing.revert", picture |-> request[s].dto.picture]
  <2>1. request[s].dto.picture \in Pictures
    BY <1>1 DEF Inv, Checked
  <2>2. q \in Request /\ q.step \notin DtoSteps
    BY <2>1 DEF Request, DtoSteps
  <2>3. Continue(s, q)
    BY <1>1 DEF Fail
  <2>4. Checked(q) /\ \A p : ~Borrows(q, p)
    BY <2>2, OtherChecked
  <2>5. \A p \in Pictures : Owns(q, p) => Owns(request[s], p)
    BY <1>1, <2>2 DEF Owns
  <2> QED BY <2>2, <2>3, <2>4, <2>5
<1>2. CASE ~request[s].dto.uploaded
  <2>1. Continue(s, Idle)
    BY <1>2 DEF Fail
  <2>2. Checked(Idle) /\ \A p : ~Borrows(Idle, p) /\ ~Owns(Idle, p)
    BY IdleIsRequest, OtherChecked
  <2> QED BY <2>1, <2>2, IdleIsRequest
<1> QED BY <1>1, <1>2

LEMMA FailStep ==
    ASSUME Inv, PicInv, NEW s \in Slots, Fail(s), request[s].step \in DtoSteps,
           UNCHANGED tables, misread' = misread, overlapped' = overlapped
    PROVE  Inv' /\ PicInv'
<1>1. overlapped' \in BOOLEAN
  BY DEF Inv, TablesOK
<1>2. PICK q \in Request :
              /\ Continue(s, q) /\ Checked(q)
              /\ \A p \in Pictures : /\ Owns(q, p) => Owns(request[s], p)
                                     /\ ~Borrows(q, p)
  BY FailNext
<1> QED BY <1>1, <1>2, QuietStep

-----------------------------------------------------------------------------
(* Categories                                                                *)

\* A handler of categories writes the table and ends.
LEMMA CategoryWrite ==
    ASSUME Inv, PicInv, NEW s \in Slots, Finish(s), UNCHANGED <<listing, stored, histories>>,
           DOMAIN category' \subseteq Categories,
           \A c \in DOMAIN category' : category'[c] \in Category
    PROVE  Inv' /\ PicInv'
<1>1. TablesOK'
  BY DEF Inv, TablesOK, histories, DeliveryIsConsistent
<1>2. Checked(Idle) /\ \A p \in Pictures : ~Owns(Idle, p) /\ ~Borrows(Idle, p)
  BY IdleIsRequest, OtherChecked
<1>3. \A p \in Pictures : Shown(p)' => Shown(p)
  BY DEF Shown
<1> QED BY <1>1, <1>2, <1>3, IdleIsRequest, HandlerStep, LessInHand DEF Finish, histories

LEMMA CategoryBegin ==
    ASSUME Inv, PicInv, NEW s \in Slots, CreateRoute(s) \/ MoveRoute(s) \/ DropRoute(s)
    PROVE  Inv' /\ PicInv'
<1>1. PICK q \in Request : /\ q.step \in {"category.insert", "category.walk",
                                          "category.children"}
                           /\ Start(s, q) /\ UNCHANGED tables
  <2>1. CASE CreateRoute(s)
    BY <2>1 DEF CreateRoute, BeginCreate, Request
  <2>2. CASE MoveRoute(s)
    BY <2>2 DEF MoveRoute, BeginMove, Request
  <2>3. CASE DropRoute(s)
    BY <2>3 DEF DropRoute, BeginDrop, Request
  <2> QED BY <2>1, <2>2, <2>3
<1>2. q.step \notin DtoSteps /\ q.step # "listing.revert"
  BY <1>1 DEF DtoSteps
<1>3. Continue(s, q) /\ misread' = misread /\ overlapped' \in BOOLEAN
  BY <1>1 DEF Start, Inv, TablesOK
<1> QED BY <1>1, <1>2, <1>3, QuietCategoryStep

LEMMA CategoryStep ==
    ASSUME Inv, PicInv, NEW s \in Slots,
           \/ \E c \in Categories : InsertCategory(s, c)
           \/ Walk(s) \/ MoveCategory(s) \/ ReadChildren(s) \/ ReadUsed(s) \/ DropCategory(s)
    PROVE  Inv' /\ PicInv'
<1>0. request[s] \in Request
  BY DEF Inv
<1>1. ASSUME NEW c \in Categories, InsertCategory(s, c) PROVE Inv' /\ PicInv'
  <2>1. request[s].parent \in Categories \cup {None}
    BY <1>0, <1>1, RequestFields DEF InsertCategory, At
  <2>2. /\ DOMAIN category' = DOMAIN category \cup {c}
        /\ \A d \in DOMAIN category' : category'[d] \in Category
    BY <1>1, <2>1 DEF InsertCategory, Inv, TablesOK, Category
  <2>3. DOMAIN category' \subseteq Categories
    BY <2>2 DEF Inv, TablesOK
  <2> QED BY <1>1, <2>2, <2>3, CategoryWrite DEF InsertCategory
<1>2. CASE Walk(s)
  <2> DEFINE r == request[s]
  <2>1. /\ At(s, "category.walk") /\ UNCHANGED <<tables, histories>>
        /\ r.category \in Categories
        /\ r.parent \in Categories \cup {None} /\ r.cursor \in Categories \cup {None}
        /\ r = [step |-> "category.walk", category |-> r.category, parent |-> r.parent,
                cursor |-> r.cursor]
    BY <1>0, <1>2, RequestFields DEF Walk, At
  <2>2. misread' = misread /\ overlapped' \in BOOLEAN
    BY <2>1 DEF histories, Inv, TablesOK
  <2>3. \E q \in Request : /\ Continue(s, q) /\ q.step \notin DtoSteps
                           /\ q.step # "listing.revert"
    <3>1. CASE r.cursor = None
      <4> DEFINE q == [step |-> "category.move", category |-> r.category,
                       parent |-> r.parent]
      <4>1. Continue(s, q)
        BY <1>2, <2>1, <3>1, NoneAssumption DEF Walk
      <4>2. q \in Request /\ q.step \notin DtoSteps /\ q.step # "listing.revert"
        BY <2>1 DEF Request, DtoSteps
      <4> QED BY <4>1, <4>2
    <3>2. CASE r.cursor # None /\ (r.cursor = r.category \/ ~Exists(r.cursor))
      <4>1. Continue(s, Idle)
        BY <1>2, <3>2 DEF Walk, Finish
      <4> QED BY <4>1, IdleIsRequest
    <3>3. CASE r.cursor # None /\ r.cursor # r.category /\ Exists(r.cursor)
      <4> DEFINE up == category[r.cursor].parent
                 q == [step |-> "category.walk", category |-> r.category,
                       parent |-> r.parent, cursor |-> up]
      <4>1. up \in Categories \cup {None}
        BY <3>3 DEF Exists, Inv, TablesOK, Category
      <4>2. Continue(s, [r EXCEPT !.cursor = up])
        BY <1>2, <3>3 DEF Walk
      <4>3. [r EXCEPT !.cursor = up] = q
        BY <2>1
      <4>4. q \in Request /\ q.step \notin DtoSteps /\ q.step # "listing.revert"
        BY <2>1, <4>1 DEF Request, DtoSteps
      <4> QED BY <4>2, <4>3, <4>4
    <3> QED BY <3>1, <3>2, <3>3
  <2> QED BY <2>1, <2>2, <2>3, QuietCategoryStep
<1>3. CASE MoveCategory(s)
  <2>1. request[s].parent \in Categories \cup {None}
    BY <1>0, <1>3, RequestFields DEF MoveCategory, At
  <2>2. /\ DOMAIN category' = DOMAIN category
        /\ \A d \in DOMAIN category' : category'[d] \in Category
    BY <1>3, <2>1 DEF MoveCategory, Inv, TablesOK, Category
  <2> QED BY <1>3, <2>2, CategoryWrite DEF MoveCategory, Inv, TablesOK
<1>4. CASE ReadChildren(s) \/ ReadUsed(s)
  <2>1. request[s].category \in Categories /\ UNCHANGED <<tables, histories>>
    BY <1>0, <1>4, RequestFields DEF ReadChildren, ReadUsed, At
  <2>2. \E q \in {Idle, [step |-> "category.used", category |-> request[s].category],
                  [step |-> "category.drop", category |-> request[s].category]} :
           Continue(s, q)
    BY <1>4 DEF ReadChildren, ReadUsed, Finish
  <2>3. PICK q \in Request : /\ Continue(s, q) /\ q.step \notin DtoSteps
                             /\ q.step # "listing.revert"
    BY <2>1, <2>2, IdleIsRequest DEF Request, DtoSteps
  <2>4. misread' = misread /\ overlapped' \in BOOLEAN
    BY <2>1 DEF histories, Inv, TablesOK
  <2> QED BY <2>1, <2>3, <2>4, QuietCategoryStep
<1>5. CASE DropCategory(s)
  <2>1. /\ DOMAIN category' = DOMAIN category
        /\ \A d \in DOMAIN category' : category'[d] \in Category
    BY <1>5 DEF DropCategory, Inv, TablesOK, Category
  <2> QED BY <1>5, <2>1, CategoryWrite DEF DropCategory, Inv, TablesOK
<1> QED BY <1>1, <1>2, <1>3, <1>4, <1>5

-----------------------------------------------------------------------------
(* Listings                                                                  *)

\* A request whose pictures are uploaded, or shown by a listing, is let in.
LEMMA UploadStep ==
    ASSUME Inv, PicInv, NEW s \in Slots, NEW q \in Request, NEW dto \in Inputs,
           q.step \in {"listing.file", "listing.read"}, q.dto = dto,
           q.step = "listing.file" =>
               dto.category # None /\ dto.available # "keep" /\ dto.payer # "keep",
           Upload(dto), Start(s, q), UNCHANGED <<category, listing>>
    PROVE  Inv' /\ PicInv'
<1>1. /\ Continue(s, q)
      /\ request[s] = Idle \/ request[s].step = "idle"
      /\ misread' = misread /\ overlapped' \in BOOLEAN
  BY DEF Start, At, Inv, TablesOK
<1>2. /\ dto.uploaded =>
            dto.picture \in Pictures /\ dto.picture \notin stored
            /\ stored' = stored \cup {dto.picture}
      /\ ~dto.uploaded => stored' = stored /\ (dto.picture = None \/ Shown(dto.picture))
  BY DEF Upload, Shown
<1>3. TablesOK'
  BY <1>1, <1>2 DEF Inv, TablesOK, DeliveryIsConsistent
<1>4. Checked(q)
  BY <1>2 DEF Checked, DtoSteps
<1>5. Inv'
  BY <1>1, <1>3, <1>4, HandlerStep DEF Start
<1>6. PicInv'
  <2>1. \A p \in Pictures : /\ Owns(q, p) <=> dto.uploaded /\ dto.picture = p
                            /\ Borrows(q, p) <=> ~dto.uploaded /\ dto.picture = p
                            /\ Shown(p)' <=> Shown(p)
    BY DEF Owns, Borrows, DtoSteps, Shown
  <2>2. \A t \in Slots : request'[t] = IF t = s THEN q ELSE request[t]
    BY DEF Start, Continue, Inv
  <2>3. CASE dto.uploaded
    BY <1>1, <1>2, <2>1, <2>2, <2>3 DEF PicInv
  <2>4. CASE ~dto.uploaded
    <3>1. \A p \in Pictures : dto.picture = p => Shown(p)
      BY <1>2, <2>4, NoneAssumption
    <3> QED BY <1>1, <1>2, <2>1, <2>2, <2>4, <3>1 DEF PicInv
  <2> QED BY <2>3, <2>4
<1> QED BY <1>5, <1>6

LEMMA ListingBegin ==
    ASSUME Inv, PicInv, NEW s \in Slots, PublishRoute(s) \/ EditRoute(s) \/ DeleteRoute(s)
    PROVE  Inv' /\ PicInv'
<1>1. CASE PublishRoute(s)
  <2>1. PICK dto \in Inputs : BeginPublish(s, dto)
    BY <1>1 DEF PublishRoute
  <2> DEFINE q == [step |-> "listing.file", dto |-> dto]
  <2>2. q \in Request
    BY DEF Request
  <2> QED BY <2>1, <2>2, UploadStep DEF BeginPublish
<1>2. CASE EditRoute(s)
  <2>1. PICK i \in Listings, dto \in Inputs : BeginEdit(s, i, dto)
    BY <1>2 DEF EditRoute
  <2> DEFINE q == [step |-> "listing.read", listing |-> i, dto |-> dto]
  <2>2. q \in Request
    BY DEF Request
  <2> QED BY <2>1, <2>2, UploadStep DEF BeginEdit
<1>3. CASE DeleteRoute(s)
  <2>1. PICK i \in Listings : BeginDelete(s, i)
    BY <1>3 DEF DeleteRoute
  <2> DEFINE q == [step |-> "listing.delete", listing |-> i]
  <2>2. q \in Request /\ q.step \notin DtoSteps /\ q.step # "listing.revert"
    BY DEF Request, DtoSteps
  <2>3. /\ Continue(s, q) /\ UNCHANGED tables
        /\ misread' = misread /\ overlapped' \in BOOLEAN
    BY <2>1 DEF BeginDelete, Start, Inv, TablesOK
  <2> QED BY <2>2, <2>3, QuietCategoryStep
<1> QED BY <1>1, <1>2, <1>3

\* A handler of listings goes on to the next check of the same input.
LEMMA NextCheck ==
    ASSUME Inv, PicInv, NEW s \in Slots, NEW q \in Request, Continue(s, q),
           UNCHANGED <<tables, histories>>, request[s].step \in DtoSteps,
           q.step \in DtoSteps, q.dto = request[s].dto, Checked(q)
    PROVE  Inv' /\ PicInv'
<1>1. misread' = misread /\ overlapped' \in BOOLEAN
  BY DEF histories, Inv, TablesOK
<1>2. \A p \in Pictures : /\ Owns(q, p) => Owns(request[s], p)
                          /\ Borrows(q, p) => Borrows(request[s], p)
  BY DEF Owns, Borrows, DtoSteps
<1> QED BY <1>1, <1>2, QuietStep

LEMMA CheckStep ==
    ASSUME Inv, PicInv, NEW s \in Slots,
           FilePublished(s) \/ ReadListing(s) \/ RefileListing(s) \/ Refuse(s)
    PROVE  Inv' /\ PicInv'
<1> DEFINE r == request[s]
<1>1. /\ r \in Request /\ Checked(r) /\ r.step \in DtoSteps
      /\ UNCHANGED <<tables, histories>>
  BY DEF Inv, FilePublished, ReadListing, RefileListing, Refuse, At, DtoSteps
<1>2. CASE Fail(s)
  BY <1>1, <1>2, FailStep DEF histories
<1>3. CASE FilePublished(s) /\ ~Fail(s)
  <2> DEFINE q == [step |-> "listing.insert", dto |-> r.dto]
  <2>1. /\ Continue(s, q)
        /\ Consistent([available |-> r.dto.available, payer |-> r.dto.payer])
        /\ r.step = "listing.file"
    BY <1>3 DEF FilePublished, At
  <2>2. q \in Request /\ q.step \in DtoSteps
    BY <1>1, RequestFields DEF Request, DtoSteps
  <2>3. Checked(q)
    BY <1>1, <2>1 DEF Checked, DtoSteps
  <2> QED BY <1>1, <2>1, <2>2, <2>3, NextCheck
<1>4. CASE ReadListing(s) /\ ~Fail(s)
  <2> DEFINE q == [step |-> "listing.refile", listing |-> r.listing, dto |-> r.dto,
                   old |-> listing[r.listing]]
  <2>1. Continue(s, q) /\ r.step = "listing.read" /\ IsOffered(r.listing)
    BY <1>4 DEF ReadListing, At
  <2>2. listing[r.listing] \in Listing /\ r.listing \in Listings
    BY <1>1, <2>1, RequestFields DEF IsOffered, IsFiled, Inv, TablesOK
  <2>3. q \in Request /\ q.step \in DtoSteps
    BY <1>1, <2>2, RequestFields DEF Request, DtoSteps
  <2>4. Checked(q)
    BY <1>1, <2>1 DEF Checked, DtoSteps
  <2> QED BY <1>1, <2>1, <2>3, <2>4, NextCheck
<1>5. CASE RefileListing(s) /\ ~Fail(s)
  <2> DEFINE q == [step |-> "listing.write", listing |-> r.listing, dto |-> r.dto,
                   old |-> r.old]
  <2>1. /\ Continue(s, [r EXCEPT !.step = "listing.write"])
        /\ r.step = "listing.refile" /\ Consistent(Merged(r.old.delivery, r.dto))
    BY <1>5 DEF RefileListing, At
  <2>2. /\ r = [step |-> r.step, listing |-> r.listing, dto |-> r.dto, old |-> r.old]
        /\ r.listing \in Listings /\ r.old \in Listing /\ r.dto \in Inputs
    BY <1>1, <2>1, RequestFields
  <2>3. [r EXCEPT !.step = "listing.write"] = q
    BY <2>2
  <2>4. q \in Request /\ q.step \in DtoSteps
    BY <2>2 DEF Request, DtoSteps
  <2>5. Checked(q)
    BY <1>1, <2>1 DEF Checked, DtoSteps
  <2> QED BY <1>1, <2>1, <2>3, <2>4, <2>5, NextCheck
<1> QED BY <1>2, <1>3, <1>4, <1>5 DEF Refuse

\* A listing is written: it shows the picture of the input, or the one it showed.
LEMMA WriteStep ==
    ASSUME Inv, PicInv, NEW s \in Slots, request[s].step \in DtoSteps,
           Written(s), UNCHANGED <<category, stored, overlapped>>,
           DOMAIN listing' \subseteq Listings,
           \A i \in DOMAIN listing' :
               /\ listing'[i] \in Listing /\ Consistent(listing'[i].delivery)
               /\ \/ listing'[i].picture = request[s].dto.picture
                  \/ i \in DOMAIN listing /\ listing'[i].picture = listing[i].picture
    PROVE  Inv' /\ PicInv'
<1>1. misread' \in BOOLEAN
  BY DEF Written, Inv, TablesOK
<1>2. TablesOK'
  BY <1>1 DEF Inv, TablesOK, DeliveryIsConsistent
<1>3. CASE Finish(s) /\ misread' = misread
  <2>1. Checked(Idle) /\ \A p : ~Owns(Idle, p) /\ ~Borrows(Idle, p)
    BY IdleIsRequest, OtherChecked
  <2>2. Inv'
    BY <1>2, <1>3, <2>1, IdleIsRequest, HandlerStep DEF Finish
  <2>3. \A t \in Slots : request'[t] = IF t = s THEN Idle ELSE request[t]
    BY <1>3 DEF Finish, Continue, Inv
  <2>4. ASSUME NEW p \in Pictures, Shown(p)', ~misread
        PROVE  p \in stored /\ \A t \in Slots : ~Owns(request'[t], p)
    <3>1. CASE Shown(p)
      <4>1. p \in stored /\ \A t \in Slots : ~Owns(request[t], p)
        BY <2>4, <3>1 DEF PicInv
      <4> QED BY <2>1, <2>3, <4>1
    <3>2. CASE request[s].dto.picture = p
      <4>1. Owns(request[s], p) \/ Borrows(request[s], p)
        BY <3>2 DEF Owns, Borrows
      <4>2. p \in stored /\ \A t \in Slots : t # s => ~Owns(request[t], p)
        BY <2>4, <4>1 DEF PicInv
      <4> QED BY <2>1, <2>3, <4>2
    <3> QED BY <2>4, <3>1, <3>2 DEF Shown
  <2>5. \A t \in Slots, p \in Pictures : /\ Owns(request'[t], p) => Owns(request[t], p)
                                         /\ Borrows(request'[t], p) => Borrows(request[t], p)
    BY <2>1, <2>3
  <2>6. PicInv'
    BY <1>3, <2>4, <2>5 DEF PicInv
  <2> QED BY <2>2, <2>6
<1>4. CASE Fail(s) /\ misread' = TRUE
  <2>1. PICK q \in Request : Continue(s, q) /\ Checked(q)
    BY <1>4, FailNext
  <2> QED BY <1>2, <1>4, <2>1, HandlerStep DEF PicInv
<1> QED BY <1>3, <1>4 DEF Written

LEMMA ListingWrite ==
    ASSUME Inv, PicInv, NEW s \in Slots,
           (\E i \in Listings : InsertListing(s, i)) \/ WriteListing(s)
    PROVE  Inv' /\ PicInv'
<1> DEFINE r == request[s]
           dto == request[s].dto
<1>1. /\ r \in Request /\ Checked(r) /\ r.step \in {"listing.insert", "listing.write"}
      /\ UNCHANGED <<category, stored, overlapped>>
  BY DEF Inv, InsertListing, WriteListing, At
<1>2. r.step \in DtoSteps /\ dto \in Input
  BY <1>1, RequestFields DEF DtoSteps
<1>3. ASSUME NEW i \in Listings, InsertListing(s, i) PROVE Inv' /\ PicInv'
  <2> DEFINE new == [available |-> dto.available, payer |-> dto.payer]
             row == [category |-> dto.category, picture |-> dto.picture, deleted |-> FALSE,
                     delivery |-> new]
  <2>1. listing' = [j \in DOMAIN listing \cup {i} |-> IF j = i THEN row ELSE listing[j]]
    BY <1>3 DEF InsertListing
  <2>2. /\ dto.category \in Categories /\ new \in Delivery /\ Consistent(new)
    BY <1>1, <1>2, <1>3 DEF Checked, Input, Delivery, InsertListing, At
  <2>3. row \in Listing
    BY <1>2, <2>2 DEF Listing, Input
  <2>4. /\ DOMAIN listing' \subseteq Listings
        /\ \A j \in DOMAIN listing' :
               /\ listing'[j] \in Listing /\ Consistent(listing'[j].delivery)
               /\ \/ listing'[j].picture = dto.picture
                  \/ j \in DOMAIN listing /\ listing'[j].picture = listing[j].picture
    BY <2>1, <2>2, <2>3 DEF Inv, TablesOK, DeliveryIsConsistent
  <2> QED BY <1>1, <1>2, <1>3, <2>4, WriteStep DEF InsertListing
<1>4. CASE WriteListing(s) /\ ~IsOffered(r.listing)
  <2>1. Fail(s) /\ UNCHANGED <<listing, misread>>
    BY <1>4 DEF WriteListing
  <2> QED BY <1>1, <1>2, <2>1, FailStep DEF tables
<1>5. CASE WriteListing(s) /\ IsOffered(r.listing)
  <2> DEFINE merged == Merged(r.old.delivery, dto)
             row == listing[r.listing]
             new == Edited(row, r)
  <2>1. /\ r.step = "listing.write" /\ r.old \in Listing /\ r.listing \in DOMAIN listing
        /\ listing' = [listing EXCEPT ![r.listing] = new] /\ Written(s)
    BY <1>1, <1>5, RequestFields DEF WriteListing, At, IsOffered, IsFiled
  <2>2. merged \in Delivery /\ Consistent(merged)
    <3>1. Consistent(merged)
      BY <1>1, <2>1 DEF Checked
    <3>2. r.old.delivery \in Delivery
      BY <2>1 DEF Listing
    <3>3. merged.available \in {"yes", "no"} /\ merged.payer \in {"someone", "nobody"}
      BY <1>2, <3>2 DEF Merged, Delivery, Input
    <3> HIDE DEF dto
    <3>4. merged = [available |-> merged.available, payer |-> merged.payer]
      BY DEF Merged
    <3> HIDE DEF merged
    <3> QED BY <3>1, <3>3, <3>4 DEF Delivery
  <2>3. row \in Listing /\ Consistent(row.delivery)
    BY <2>1 DEF Inv, TablesOK, DeliveryIsConsistent
  <2>4. /\ new \in Listing /\ Consistent(new.delivery)
        /\ new.picture = dto.picture \/ new.picture = row.picture
    <3> HIDE DEF merged, row
    <3>1. new = [row EXCEPT !.category = IF dto.category = None THEN @ ELSE dto.category,
                            !.picture = IF dto.picture = None THEN @ ELSE dto.picture,
                            !.delivery = IF dto.available = "keep" /\ dto.payer = "keep"
                                         THEN @ ELSE merged]
      BY DEF Edited, merged
    <3> HIDE DEF new
    <3> QED BY <1>2, <2>2, <2>3, <3>1 DEF Listing, Input
  <2>5. /\ DOMAIN listing' = DOMAIN listing
        /\ listing'[r.listing] = new
        /\ \A j \in DOMAIN listing : j # r.listing => listing'[j] = listing[j]
    BY <2>1
  <2>6. /\ DOMAIN listing' \subseteq Listings
        /\ \A j \in DOMAIN listing' :
               /\ listing'[j] \in Listing /\ Consistent(listing'[j].delivery)
               /\ \/ listing'[j].picture = dto.picture
                  \/ j \in DOMAIN listing /\ listing'[j].picture = listing[j].picture
    <3> HIDE DEF new
    <3> QED BY <2>4, <2>5 DEF Inv, TablesOK, DeliveryIsConsistent
  <2> QED BY <1>1, <1>2, <2>1, <2>6, WriteStep
<1> QED BY <1>3, <1>4, <1>5

\* The pictures that a failed request uploaded go: they are shown nowhere.
LEMMA RevertStep == ASSUME Inv, PicInv, NEW s \in Slots, Revert(s) PROVE Inv' /\ PicInv'
<1> DEFINE gone == request[s].picture
<1>1. /\ request[s].step = "listing.revert" /\ stored' = stored \ {gone}
      /\ UNCHANGED <<category, listing, overlapped, misread>> /\ Continue(s, Idle)
  BY DEF Revert, At, Finish, histories
<1>2. Checked(Idle) /\ \A p : ~Owns(Idle, p) /\ ~Borrows(Idle, p)
  BY IdleIsRequest, OtherChecked
<1>3. TablesOK'
  BY <1>1 DEF Inv, TablesOK, DeliveryIsConsistent
<1>4. Inv'
  BY <1>1, <1>2, <1>3, IdleIsRequest, HandlerStep
<1>5. \A t \in Slots : request'[t] = IF t = s THEN Idle ELSE request[t]
  BY <1>1 DEF Continue, Inv
<1>6. Owns(request[s], gone)
  BY <1>1 DEF Owns
<1>7. \A p \in Pictures : Shown(p)' <=> Shown(p)
  BY <1>1 DEF Shown
<1>8. PicInv'
  BY <1>1, <1>2, <1>5, <1>6, <1>7 DEF PicInv
<1> QED BY <1>4, <1>8

LEMMA ListingEnd ==
    ASSUME Inv, PicInv, NEW s \in Slots, DeleteListing(s) \/ Crash(s)
    PROVE  Inv' /\ PicInv'
<1>1. /\ Continue(s, Idle) /\ UNCHANGED <<category, stored, overlapped, misread>>
      /\ \/ listing' = listing
         \/ listing' = [listing EXCEPT ![request[s].listing].deleted = TRUE]
  BY DEF DeleteListing, Crash, Finish, tables, histories
<1>2. Checked(Idle) /\ \A p : ~Owns(Idle, p) /\ ~Borrows(Idle, p)
  BY IdleIsRequest, OtherChecked
<1>3. /\ DOMAIN listing' = DOMAIN listing
      /\ \A i \in DOMAIN listing : /\ listing'[i] \in Listing
                                   /\ listing'[i].delivery = listing[i].delivery
                                   /\ listing'[i].picture = listing[i].picture
  <2>1. \A i \in DOMAIN listing :
           LET row == [listing[i] EXCEPT !.deleted = TRUE]
           IN /\ row \in Listing
              /\ row.delivery = listing[i].delivery /\ row.picture = listing[i].picture
    BY DEF Inv, TablesOK, Listing
  <2>2. /\ DOMAIN listing' = DOMAIN listing
        /\ \A i \in DOMAIN listing :
              \/ listing'[i] = listing[i]
              \/ listing'[i] = [listing[i] EXCEPT !.deleted = TRUE]
    BY <1>1
  <2> QED BY <2>1, <2>2 DEF Inv, TablesOK
<1>4. TablesOK'
  BY <1>1, <1>3 DEF Inv, TablesOK, DeliveryIsConsistent
<1>5. \A p \in Pictures : Shown(p)' => Shown(p)
  BY <1>3 DEF Shown
<1> QED BY <1>1, <1>2, <1>4, <1>5, IdleIsRequest, HandlerStep, LessInHand

-----------------------------------------------------------------------------

LEMMA InitInv == Init => Inv /\ PicInv
<1> SUFFICES ASSUME Init PROVE Inv /\ PicInv
  OBVIOUS
<1>1. DOMAIN category = {} /\ DOMAIN listing = {} /\ stored = {}
  BY DEF Init
<1>2. TablesOK
  BY <1>1 DEF Init, TablesOK, DeliveryIsConsistent
<1>3. \A s \in Slots : request[s] = Idle
  BY DEF Init
<1>4. Checked(Idle) /\ \A p : ~Owns(Idle, p) /\ ~Borrows(Idle, p)
  BY IdleIsRequest, OtherChecked
<1>5. request \in [Slots -> Request]
  BY IdleIsRequest DEF Init
<1> QED BY <1>1, <1>2, <1>3, <1>4, <1>5 DEF Inv, PicInv, Shown

\* Inv is inductive, and PicInv with it.
THEOREM Invariance == Spec => [](Inv /\ PicInv)
<1>1. Inv /\ PicInv /\ [Next]_vars => Inv' /\ PicInv'
  <2> SUFFICES ASSUME Inv, PicInv, [Next]_vars PROVE Inv' /\ PicInv'
    OBVIOUS
  <2>1. CASE UNCHANGED vars
    <3>1. Inv'
      BY <2>1 DEF vars, tables, histories, Inv, TablesOK, DeliveryIsConsistent
    <3>2. PicInv'
      BY <2>1 DEF vars, tables, histories, PicInv, Shown
    <3> QED BY <3>1, <3>2
  <2>2. ASSUME NEW s \in Slots, Begin(s) PROVE Inv' /\ PicInv'
    BY <2>2, CategoryBegin, ListingBegin DEF Begin
  <2>3. ASSUME NEW s \in Slots, Step(s) \/ Crash(s) PROVE Inv' /\ PicInv'
    BY <2>3, CategoryStep, CheckStep, ListingWrite, RevertStep, ListingEnd DEF Step
  <2> QED BY <2>1, <2>2, <2>3 DEF Next
<1> QED BY InitInv, <1>1, PTL DEF Spec

\* The tables, the storage and the handlers keep their types.
THEOREM TypeCorrect == Spec => []TypeOK
<1>1. Inv => TypeOK
  BY DEF Inv, TablesOK, TypeOK
<1> QED BY <1>1, Invariance, PTL

\* A listing names who pays for delivery exactly when it offers it, although an edit
\* decides on a row that may be stale (update-product).
THEOREM DeliverySafety == Spec => []DeliveryIsConsistent
<1>1. Inv => DeliveryIsConsistent
  BY DEF Inv, TablesOK
<1> QED BY <1>1, Invariance, PTL

\* Failed requests take back only pictures that no listing shows, however many
\* handlers upload, write and fail at a time (revertUploadedPublicUrls).
THEOREM PictureSafety == Spec => []PicturesAreStored
<1>1. Inv /\ PicInv => PicturesAreStored
  <2> SUFFICES ASSUME Inv, PicInv, ~misread, NEW i \in DOMAIN listing,
                      listing[i].picture # None
               PROVE  listing[i].picture \in stored
    BY DEF PicturesAreStored
  <2>1. listing[i].picture \in Pictures /\ Shown(listing[i].picture)
    BY DEF Inv, TablesOK, Listing, Shown
  <2> QED BY <2>1 DEF PicInv
<1> QED BY <1>1, Invariance, PTL
-----------------------------------------------------------------------------
(* The tree of categories, and the listings filed in it                      *)

\* A parent has a row, for rows stay.
Linked == \A c \in DOMAIN category : category[c].parent \in DOMAIN category \cup {None}

\* No set of categories has all its parents in itself: there is no circle.
Rooted ==
    \A S \in SUBSET DOMAIN category :
        S # {} => \E c \in S : category[c].parent \notin S

\* Going up from p, and never on from c, leads to x.
Leads(c, p, x) ==
    \A S \in SUBSET (Categories \cup {None}) :
        /\ p \in S
        /\ \A d \in S \cap DOMAIN category : d # c => category[d].parent \in S
        => x \in S

\* What is offered is in an active category.
Placed == \A i \in DOMAIN listing : IsOffered(i) => MayFile(listing[i].category)

\* What the handler q knows of a parent, whatever races with it
Links(q) ==
    /\ q.step \in {"category.insert", "category.move"} => q.parent = None \/ Exists(q.parent)
    /\ q.step = "category.walk" => q.cursor = q.parent \/ Exists(q.parent)

\* What it has seen, as long as it is in flight alone
Sees(q) ==
    /\ q.step = "category.walk" => Leads(q.category, q.parent, q.cursor)
    /\ q.step = "category.move" => Leads(q.category, q.parent, None)
    /\ q.step = "category.drop" =>
          \A i \in DOMAIN listing : IsOffered(i) => listing[i].category # q.category
    /\ q.step = "listing.insert" => MayFile(q.dto.category)
    /\ q.step = "listing.write" /\ q.dto.category # None => MayFile(q.dto.category)

Alone == ~overlapped => \A s, t \in Slots : ~At(s, "idle") /\ ~At(t, "idle") => s = t

TreeInv ==
    /\ Linked /\ Alone
    /\ \A s \in Slots : Links(request[s])
    /\ ~overlapped => Rooted /\ Placed /\ \A s \in Slots : Sees(request[s])

\* The other handlers, as far as a step of s is concerned
Others(s) ==
    /\ overlapped => overlapped'
    /\ ~overlapped' => \A t \in Slots : t # s => At(t, "idle")

LEMMA InFlight ==
    ASSUME TreeInv, NEW s \in Slots, ~At(s, "idle"), overlapped' = overlapped
    PROVE  Others(s)
BY DEF TreeInv, Alone, Others

LEMMA Starts == ASSUME NEW s \in Slots, NEW q, Start(s, q) PROVE Others(s)
BY DEF Start, Others

\* A handler goes on with q; rows of categories stay.
LEMMA TreeKept ==
    ASSUME Inv, TreeInv, NEW s \in Slots, NEW q, Continue(s, q), Others(s),
           DOMAIN category \subseteq DOMAIN category', Linked', Links(q)',
           ~overlapped' => Rooted' /\ Placed' /\ Sees(q)'
    PROVE  TreeInv'
<1>1. \A t \in Slots : request'[t] = IF t = s THEN q ELSE request[t]
  BY DEF Continue, Inv
<1>2. Alone'
  BY <1>1 DEF Alone, Others, At
<1>3. \A t \in Slots : Links(request[t])'
  BY <1>1 DEF TreeInv, Links, Exists
<1>4. ~overlapped' => \A t \in Slots : Sees(request[t])'
  BY <1>1 DEF Sees, Others, At
<1> QED BY <1>2, <1>3, <1>4 DEF TreeInv

\* ... the tables of categories and listings do not change.
LEMMA TreeQuiet ==
    ASSUME Inv, TreeInv, NEW s \in Slots, NEW q, Continue(s, q), Others(s),
           UNCHANGED <<category, listing>>, Links(q), ~overlapped' => Sees(q)
    PROVE  TreeInv'
<1>1. /\ Linked' /\ Links(q)'
      /\ Rooted => Rooted'
      /\ Placed => Placed'
      /\ Sees(q) => Sees(q)'
  BY DEF TreeInv, Linked, Links, Rooted, Placed, Sees, Leads, Exists, IsOffered,
     IsFiled, MayFile
<1>2. ~overlapped' => Rooted' /\ Placed' /\ Sees(q)'
  BY <1>1 DEF Others, TreeInv
<1> QED BY <1>1, <1>2, TreeKept

\* What the steps that a category or a listing needs no look at know
QuietSteps == {"idle", "category.children", "category.used", "listing.file",
               "listing.read", "listing.refile", "listing.revert", "listing.delete"}

LEMMA NothingSeen == ASSUME NEW q, q.step \in QuietSteps PROVE Links(q) /\ Sees(q)
BY DEF QuietSteps, Links, Sees

\* A handler ends, or takes back what was uploaded.
LEMMA Ends ==
    ASSUME NEW s, Finish(s) \/ Fail(s)
    PROVE  \E q : Continue(s, q) /\ q.step \in {"idle", "listing.revert"}
BY IdleIsRequest DEF Finish, Fail

LEMMA TreeEnds ==
    ASSUME Inv, TreeInv, NEW s \in Slots, Finish(s) \/ Fail(s), Others(s),
           UNCHANGED <<category, listing>>
    PROVE  TreeInv'
<1>1. PICK q : Continue(s, q) /\ q.step \in QuietSteps
  BY Ends DEF QuietSteps
<1> QED BY <1>1, NothingSeen, TreeQuiet

LEMMA TreeBegin == ASSUME Inv, TreeInv, NEW s \in Slots, Begin(s) PROVE TreeInv'
<1>1. ASSUME NEW q, Start(s, q), UNCHANGED <<category, listing>>, Links(q), Sees(q)
      PROVE  TreeInv'
  BY <1>1, Starts, TreeQuiet DEF Start
<1>2. ASSUME NEW p, BeginCreate(s, p) PROVE TreeInv'
  <2> DEFINE q == [step |-> "category.insert", parent |-> p]
  <2>1. Links(q) /\ Sees(q)
    BY <1>2 DEF BeginCreate, Links, Sees
  <2>2. Start(s, q) /\ UNCHANGED <<category, listing>>
    BY <1>2 DEF BeginCreate, tables
  <2> HIDE DEF q
  <2> QED BY <1>1, <2>1, <2>2
<1>3. ASSUME NEW c, NEW p, BeginMove(s, c, p) PROVE TreeInv'
  <2> DEFINE q == [step |-> "category.walk", category |-> c, parent |-> p, cursor |-> p]
  <2>1. Links(q) /\ Sees(q)
    BY DEF Links, Sees, Leads
  <2>2. Start(s, q) /\ UNCHANGED <<category, listing>>
    BY <1>3 DEF BeginMove, tables
  <2> HIDE DEF q
  <2> QED BY <1>1, <2>1, <2>2
<1>4. ASSUME NEW q, Start(s, q), UNCHANGED <<category, listing>>, q.step \in QuietSteps
      PROVE  TreeInv'
  BY <1>1, <1>4, NothingSeen
<1>5. CASE DropRoute(s)
  BY <1>4, <1>5 DEF DropRoute, BeginDrop, tables, QuietSteps
<1>6. CASE PublishRoute(s)
  BY <1>4, <1>6 DEF PublishRoute, BeginPublish, QuietSteps
<1>7. CASE EditRoute(s)
  BY <1>4, <1>7 DEF EditRoute, BeginEdit, QuietSteps
<1>8. CASE DeleteRoute(s)
  BY <1>4, <1>8 DEF DeleteRoute, BeginDelete, tables, QuietSteps
<1> QED BY <1>2, <1>3, <1>5, <1>6, <1>7, <1>8 DEF Begin, CreateRoute, MoveRoute

\* The loop of assertNoCycle goes up one category, or ends.
LEMMA TreeWalk == ASSUME Inv, TreeInv, NEW s \in Slots, Walk(s) PROVE TreeInv'
<1> DEFINE r == request[s]
<1>1. /\ r.step = "category.walk" /\ UNCHANGED <<category, listing, overlapped>>
      /\ r \in Request /\ Links(r) /\ (~overlapped => Sees(r)) /\ Others(s)
  BY InFlight DEF Walk, At, Inv, TreeInv, tables, histories
<1>2. /\ r.category \in Categories /\ r.cursor \in Categories \cup {None}
      /\ r = [step |-> r.step, category |-> r.category, parent |-> r.parent,
              cursor |-> r.cursor]
  BY <1>1, RequestFields
<1>3. CASE r.cursor = None
  <2> DEFINE q == [step |-> "category.move", category |-> r.category, parent |-> r.parent]
  <2>1. Continue(s, q)
    BY <1>2, <1>3, NoneAssumption DEF Walk
  <2>2. Links(q) /\ (~overlapped => Sees(q))
    BY <1>1, <1>3 DEF Links, Sees
  <2> HIDE DEF q
  <2> QED BY <1>1, <2>1, <2>2, TreeQuiet
<1>4. CASE r.cursor # None /\ (r.cursor = r.category \/ ~Exists(r.cursor))
  <2>1. Finish(s)
    BY <1>4 DEF Walk
  <2> QED BY <1>1, <2>1, TreeEnds
<1>5. CASE r.cursor # None /\ r.cursor # r.category /\ Exists(r.cursor)
  <2> DEFINE up == category[r.cursor].parent
             q == [step |-> "category.walk", category |-> r.category,
                   parent |-> r.parent, cursor |-> up]
  <2>1. Continue(s, [r EXCEPT !.cursor = up])
    BY <1>5 DEF Walk
  <2>2. [r EXCEPT !.cursor = up] = q
    BY <1>1, <1>2
  <2>3. Links(q)
    BY <1>1, <1>5 DEF Links
  <2>4. ~overlapped => Leads(r.category, r.parent, up)
    <3> SUFFICES ASSUME ~overlapped, NEW S \in SUBSET (Categories \cup {None}),
                        r.parent \in S,
                        \A d \in S \cap DOMAIN category :
                            d # r.category => category[d].parent \in S
                 PROVE  up \in S
      BY DEF Leads
    <3>1. r.cursor \in S
      BY <1>1 DEF Sees, Leads
    <3> QED BY <1>5, <3>1 DEF Exists
  <2>5. ~overlapped => Sees(q)
    BY <2>4 DEF Sees
  <2> HIDE DEF q
  <2> QED BY <1>1, <2>1, <2>2, <2>3, <2>5, TreeQuiet
<1> QED BY <1>3, <1>4, <1>5

\* A new category is put below one that is there: nothing is below it.
LEMMA TreeInsert ==
    ASSUME Inv, TreeInv, NEW s \in Slots, NEW c \in Categories, InsertCategory(s, c)
    PROVE  TreeInv'
<1> DEFINE p == request[s].parent
<1>1. /\ At(s, "category.insert") /\ Continue(s, Idle)
      /\ UNCHANGED <<listing, overlapped>> /\ Others(s)
      /\ c \notin DOMAIN category
      /\ category' = [d \in DOMAIN category \cup {c} |->
                        IF d = c THEN [active |-> TRUE, parent |-> p] ELSE category[d]]
  BY InFlight DEF InsertCategory, Finish, histories, At, Exists
<1>2. p \in DOMAIN category \cup {None}
  BY <1>1 DEF TreeInv, Links, At, Exists
<1> HIDE DEF p
<1>3. /\ DOMAIN category' = DOMAIN category \cup {c}
      /\ category'[c].parent = p /\ category'[c].active
      /\ \A d \in DOMAIN category : category'[d] = category[d]
  BY <1>1
<1>4. c # None
  BY NoneAssumption
<1>5. Linked'
  BY <1>2, <1>3 DEF TreeInv, Linked
<1>6. Rooted => Rooted'
  <2> SUFFICES ASSUME Rooted, NEW S \in SUBSET (DOMAIN category \cup {c}), S # {}
               PROVE  \E d \in S : category'[d].parent \notin S
    BY <1>3 DEF Rooted
  <2>1. CASE S = {c}
    BY <1>1, <1>2, <1>3, <1>4, <2>1
  <2>2. CASE S # {c}
    <3>1. S \ {c} \in SUBSET DOMAIN category /\ S \ {c} # {}
      BY <2>2
    <3>2. PICK d \in S \ {c} : category[d].parent \notin S \ {c}
      BY <3>1 DEF Rooted
    <3>3. category[d].parent # c
      BY <1>1, <1>4, <3>1 DEF TreeInv, Linked
    <3> QED BY <1>3, <3>1, <3>2, <3>3
  <2> QED BY <2>1, <2>2
<1>7. Placed => Placed'
  BY <1>1, <1>3 DEF Placed, IsOffered, IsFiled, MayFile, Exists
<1>8. Links(Idle)' /\ Sees(Idle)'
  BY IdleIsRequest DEF Links, Sees
<1> QED BY <1>1, <1>3, <1>5, <1>6, <1>7, <1>8, TreeKept DEF TreeInv, Others

\* A category that is moved is not above its new parent: a circle would lead
\* from there to the category, and not to the end that the loop has seen.
LEMMA TreeMove == ASSUME Inv, TreeInv, NEW s \in Slots, MoveCategory(s) PROVE TreeInv'
<1> DEFINE p == request[s].parent
           c == request[s].category
<1>1. /\ At(s, "category.move") /\ Continue(s, Idle)
      /\ UNCHANGED <<listing, overlapped>> /\ Others(s)
      /\ category' = [category EXCEPT ![c].parent = p]
  BY InFlight DEF MoveCategory, Finish, histories, At
<1>2. p \in DOMAIN category \cup {None} /\ (~overlapped => Leads(c, p, None))
  BY <1>1 DEF TreeInv, Links, Sees, At, Exists
<1> HIDE DEF p, c
<1>3. /\ DOMAIN category' = DOMAIN category /\ DOMAIN category \subseteq Categories
      /\ \A d \in DOMAIN category :
            /\ category'[d].active = category[d].active
            /\ category'[d].parent = IF d = c THEN p ELSE category[d].parent
  <2>1. \A d \in DOMAIN category : category[d] \in Category
    BY DEF Inv, TablesOK
  <2> QED BY <1>1, <2>1 DEF Inv, TablesOK, Category
<1>4. Linked'
  BY <1>2, <1>3 DEF TreeInv, Linked
<1>5. ~overlapped /\ Rooted => Rooted'
  <2> SUFFICES ASSUME ~overlapped, Rooted, NEW S \in SUBSET DOMAIN category, S # {},
                      \A d \in S : category'[d].parent \in S
               PROVE  FALSE
    BY <1>3 DEF Rooted
  <2>1. CASE c \notin S
    <3>1. \A d \in S : category[d].parent \in S
      BY <1>3, <2>1
    <3> QED BY <3>1 DEF Rooted
  <2>2. CASE c \in S
    <3>1. p \in S
      BY <1>3, <2>2
    <3>2. \A d \in S \cap DOMAIN category : d # c => category[d].parent \in S
      BY <1>3
    <3>3. S \in SUBSET (Categories \cup {None})
      BY <1>3
    <3>4. None \in S
      BY <1>2, <3>1, <3>2, <3>3 DEF Leads
    <3> QED BY <1>3, <3>4, NoneAssumption
  <2> QED BY <2>1, <2>2
<1>6. Placed => Placed'
  BY <1>1, <1>3 DEF Placed, IsOffered, IsFiled, MayFile, Exists
<1>7. Links(Idle)' /\ Sees(Idle)'
  BY IdleIsRequest DEF Links, Sees
<1> QED BY <1>1, <1>3, <1>4, <1>5, <1>6, <1>7, TreeKept DEF TreeInv, Others

\* A category is deleted when no listing was in it; its parent stays.
LEMMA TreeDrop ==
    ASSUME Inv, TreeInv, NEW s \in Slots,
           ReadChildren(s) \/ ReadUsed(s) \/ DropCategory(s)
    PROVE  TreeInv'
<1> DEFINE c == request[s].category
<1>1. ~At(s, "idle") /\ UNCHANGED <<listing, overlapped>> /\ Others(s)
  BY InFlight DEF ReadChildren, ReadUsed, DropCategory, histories, tables, At
<1>2. CASE ReadChildren(s)
  <2>1. Finish(s) \/ Continue(s, [step |-> "category.used", category |-> c])
    BY <1>2 DEF ReadChildren
  <2>2. UNCHANGED <<category, listing>>
    BY <1>2 DEF ReadChildren, tables
  <2>3. [step |-> "category.used", category |-> c].step \in QuietSteps
    BY DEF QuietSteps
  <2> QED BY <1>1, <2>1, <2>2, <2>3, TreeEnds, NothingSeen, TreeQuiet
<1>3. CASE ReadUsed(s)
  <2> DEFINE q == [step |-> "category.drop", category |-> c]
  <2>1. UNCHANGED <<category, listing>>
    BY <1>3 DEF ReadUsed, tables
  <2>2. CASE Finish(s)
    BY <1>1, <2>1, <2>2, TreeEnds
  <2>3. CASE ~Finish(s)
    <3>1. /\ Continue(s, q)
          /\ \A i \in DOMAIN listing : IsOffered(i) => listing[i].category # c
      BY <1>3, <2>3 DEF ReadUsed
    <3>2. Links(q) /\ Sees(q)
      BY <3>1 DEF Links, Sees
    <3> HIDE DEF q
    <3> QED BY <1>1, <2>1, <3>1, <3>2, TreeQuiet
  <2> QED BY <2>2, <2>3
<1>4. CASE DropCategory(s)
  <2>1. /\ Continue(s, Idle) /\ At(s, "category.drop")
        /\ category' = [category EXCEPT ![c].active = FALSE]
    BY <1>4 DEF DropCategory, Finish
  <2>2. ~overlapped => \A i \in DOMAIN listing : IsOffered(i) => listing[i].category # c
    BY <2>1 DEF TreeInv, Sees, At
  <2> HIDE DEF c
  <2>3. /\ DOMAIN category' = DOMAIN category
        /\ \A d \in DOMAIN category :
              /\ category'[d].parent = category[d].parent
              /\ d # c => category'[d].active = category[d].active
    <3>1. \A d \in DOMAIN category : category[d] \in Category
      BY DEF Inv, TablesOK
    <3> QED BY <2>1, <3>1 DEF Category
  <2>4. Linked' /\ (Rooted => Rooted')
    BY <2>3 DEF TreeInv, Linked, Rooted
  <2>5. ~overlapped /\ Placed => Placed'
    BY <1>1, <2>2, <2>3 DEF Placed, IsOffered, IsFiled, MayFile, Exists
  <2>6. Links(Idle)' /\ Sees(Idle)'
    BY IdleIsRequest DEF Links, Sees
  <2> QED BY <1>1, <2>1, <2>3, <2>4, <2>5, <2>6, TreeKept DEF TreeInv, Others
<1> QED BY <1>2, <1>3, <1>4
\* What a listing is filed in is looked at before it is written.
LEMMA TreeCheck ==
    ASSUME Inv, TreeInv, NEW s \in Slots,
           FilePublished(s) \/ ReadListing(s) \/ RefileListing(s) \/ Refuse(s)
    PROVE  TreeInv'
<1> DEFINE r == request[s]
<1>1. r \in Request /\ r.step \in DtoSteps /\ UNCHANGED <<category, listing, overlapped>>
  BY DEF Inv, FilePublished, ReadListing, RefileListing, Refuse, At, DtoSteps, tables,
     histories
<1>2. Others(s)
  BY <1>1, InFlight DEF At, DtoSteps
<1>3. CASE Fail(s)
  BY <1>1, <1>2, <1>3, TreeEnds
<1>4. CASE FilePublished(s) /\ ~Fail(s)
  <2> DEFINE q == [step |-> "listing.insert", dto |-> r.dto]
  <2>1. Continue(s, q) /\ MayFile(r.dto.category)
    BY <1>4 DEF FilePublished
  <2>2. Links(q) /\ Sees(q)
    BY <2>1 DEF Links, Sees
  <2> HIDE DEF q
  <2> QED BY <1>1, <1>2, <2>1, <2>2, TreeQuiet
<1>5. CASE ReadListing(s) /\ ~Fail(s)
  <2> DEFINE q == [step |-> "listing.refile", listing |-> r.listing, dto |-> r.dto,
                   old |-> listing[r.listing]]
  <2>1. Continue(s, q) /\ q.step \in QuietSteps
    BY <1>5 DEF ReadListing, QuietSteps
  <2> HIDE DEF q
  <2> QED BY <1>1, <1>2, <2>1, NothingSeen, TreeQuiet
<1>6. CASE RefileListing(s) /\ ~Fail(s)
  <2> DEFINE q == [step |-> "listing.write", listing |-> r.listing, dto |-> r.dto,
                   old |-> r.old]
  <2>1. /\ Continue(s, [r EXCEPT !.step = "listing.write"])
        /\ r.step = "listing.refile"
        /\ r.dto.category # None => MayFile(r.dto.category)
    BY <1>6 DEF RefileListing, At
  <2>2. r = [step |-> r.step, listing |-> r.listing, dto |-> r.dto, old |-> r.old]
    BY <1>1, <2>1, RequestFields
  <2>3. [r EXCEPT !.step = "listing.write"] = q
    BY <2>2
  <2>4. Links(q) /\ Sees(q)
    BY <2>1 DEF Links, Sees
  <2> HIDE DEF q
  <2> QED BY <1>1, <1>2, <2>1, <2>3, <2>4, TreeQuiet
<1> QED BY <1>3, <1>4, <1>5, <1>6 DEF Refuse

\* A listing is written: in the category that was looked at, or where it was.
LEMMA TreeListing ==
    ASSUME Inv, TreeInv, NEW s \in Slots, Finish(s) \/ Fail(s), Others(s),
           UNCHANGED category,
           ~overlapped => \A i \in DOMAIN listing' :
               ~listing'[i].deleted =>
                   \/ MayFile(listing'[i].category)
                   \/ IsOffered(i) /\ listing'[i].category = listing[i].category
    PROVE  TreeInv'
<1>1. PICK q : Continue(s, q) /\ q.step \in {"idle", "listing.revert"}
  BY Ends
<1>2. Linked' /\ (Rooted => Rooted')
  BY DEF TreeInv, Linked, Rooted
<1>3. ~overlapped /\ Placed => Placed'
  <2> SUFFICES ASSUME ~overlapped, Placed, NEW i \in DOMAIN listing',
                      ~listing'[i].deleted
               PROVE  MayFile(listing'[i].category)
    BY DEF Placed, IsOffered, IsFiled, MayFile, Exists
  <2>1. CASE MayFile(listing'[i].category)
    BY <2>1
  <2>2. CASE IsOffered(i) /\ listing'[i].category = listing[i].category
    <3>1. MayFile(listing[i].category)
      BY <2>2 DEF Placed, IsOffered, IsFiled
    <3> QED BY <2>2, <3>1
  <2> QED BY <2>1, <2>2
<1>4. Links(q)' /\ Sees(q)'
  BY <1>1 DEF Links, Sees
<1> QED BY <1>1, <1>2, <1>3, <1>4, TreeKept DEF TreeInv, Others

LEMMA TreeWrite ==
    ASSUME Inv, TreeInv, NEW s \in Slots,
           (\E i \in Listings : InsertListing(s, i)) \/ WriteListing(s)
    PROVE  TreeInv'
<1> DEFINE r == request[s]
           dto == request[s].dto
<1>1. /\ r \in Request /\ r.step \in {"listing.insert", "listing.write"}
      /\ UNCHANGED <<category, overlapped>>
  BY DEF Inv, InsertListing, WriteListing, At
<1>2. Others(s) /\ (~overlapped => Sees(r))
  BY <1>1, InFlight DEF At, TreeInv
<1>3. Written(s) => Finish(s) \/ Fail(s)
  BY DEF Written
<1>4. ASSUME NEW i \in Listings, InsertListing(s, i) PROVE TreeInv'
  <2>1. /\ Written(s) /\ r.step = "listing.insert"
        /\ DOMAIN listing' = DOMAIN listing \cup {i}
        /\ listing'[i].category = dto.category
        /\ \A j \in DOMAIN listing : j # i => listing'[j] = listing[j]
    BY <1>4 DEF InsertListing, At
  <2>2. ~overlapped => MayFile(dto.category)
    BY <1>2, <2>1 DEF Sees
  <2>3. ~overlapped => \A j \in DOMAIN listing' :
            ~listing'[j].deleted =>
                \/ MayFile(listing'[j].category)
                \/ IsOffered(j) /\ listing'[j].category = listing[j].category
    BY <2>1, <2>2 DEF IsOffered, IsFiled
  <2> QED BY <1>1, <1>2, <1>3, <2>1, <2>3, TreeListing
<1>5. CASE WriteListing(s) /\ ~IsOffered(r.listing)
  <2>1. Fail(s) /\ UNCHANGED listing
    BY <1>5 DEF WriteListing
  <2> QED BY <1>1, <1>2, <2>1, TreeEnds
<1>6. CASE WriteListing(s) /\ IsOffered(r.listing)
  <2> DEFINE row == listing[r.listing]
             new == Edited(row, r)
  <2>1. /\ Written(s) /\ r.step = "listing.write" /\ r.listing \in DOMAIN listing
        /\ listing' = [listing EXCEPT ![r.listing] = new]
    BY <1>6 DEF WriteListing, At, IsOffered, IsFiled
  <2>2. new.category = IF dto.category = None THEN row.category ELSE dto.category
    <3>1. row \in Listing
      BY <2>1 DEF Inv, TablesOK
    <3> HIDE DEF row
    <3> QED BY <3>1 DEF Edited, Listing
  <2>3. ~overlapped /\ dto.category # None => MayFile(dto.category)
    BY <1>2, <2>1 DEF Sees
  <2>4. /\ DOMAIN listing' = DOMAIN listing
        /\ listing'[r.listing] = new
        /\ \A j \in DOMAIN listing : j # r.listing => listing'[j] = listing[j]
    BY <2>1
  <2> HIDE DEF new
  <2>5. ~overlapped => \A j \in DOMAIN listing' :
            ~listing'[j].deleted =>
                \/ MayFile(listing'[j].category)
                \/ IsOffered(j) /\ listing'[j].category = listing[j].category
    BY <1>6, <2>2, <2>3, <2>4 DEF IsOffered, IsFiled
  <2> QED BY <1>1, <1>2, <1>3, <2>1, <2>5, TreeListing
<1> QED BY <1>4, <1>5, <1>6

\* A listing is deleted, pictures are taken back, or a process dies.
LEMMA TreeEnd ==
    ASSUME Inv, TreeInv, NEW s \in Slots, Revert(s) \/ DeleteListing(s) \/ Crash(s)
    PROVE  TreeInv'
<1>1. /\ Finish(s) /\ UNCHANGED <<category, overlapped>> /\ ~At(s, "idle")
      /\ \/ listing' = listing
         \/ listing' = [listing EXCEPT ![request[s].listing].deleted = TRUE]
  BY DEF Revert, DeleteListing, Crash, At, tables, histories
<1>2. Others(s)
  BY <1>1, InFlight
<1>3. CASE listing' = listing
  BY <1>1, <1>2, <1>3, TreeEnds
<1>4. CASE listing' = [listing EXCEPT ![request[s].listing].deleted = TRUE]
  <2>1. \A i \in DOMAIN listing : listing[i] \in Listing
    BY DEF Inv, TablesOK
  <2>2. \A i \in DOMAIN listing' :
            ~listing'[i].deleted =>
                IsOffered(i) /\ listing'[i].category = listing[i].category
    BY <1>4, <2>1 DEF Listing, IsOffered, IsFiled
  <2> QED BY <1>1, <1>2, <2>2, TreeListing
<1> QED BY <1>1, <1>3, <1>4

LEMMA TreeInit == Init => TreeInv
<1> SUFFICES ASSUME Init PROVE TreeInv
  OBVIOUS
<1>1. \A s \in Slots : request[s].step = "idle"
  BY IdleIsRequest DEF Init
<1>2. DOMAIN category = {} /\ DOMAIN listing = {}
  BY DEF Init
<1>3. Linked /\ Rooted /\ Placed
  BY <1>2 DEF Linked, Rooted, Placed
<1> QED BY <1>1, <1>3 DEF TreeInv, Alone, Links, Sees, At

LEMMA TreeNext == Inv /\ TreeInv /\ [Next]_vars => TreeInv'
<1> SUFFICES ASSUME Inv, TreeInv, [Next]_vars PROVE TreeInv'
  OBVIOUS
<1>1. CASE UNCHANGED vars
  BY <1>1 DEF vars, tables, histories, TreeInv, Alone, Linked, Links, Rooted, Placed,
     Sees, Leads, Exists, IsOffered, IsFiled, MayFile, At
<1>2. ASSUME NEW s \in Slots, Begin(s) \/ Step(s) \/ Crash(s) PROVE TreeInv'
  BY <1>2, TreeBegin, TreeInsert, TreeWalk, TreeMove, TreeDrop, TreeCheck, TreeWrite,
     TreeEnd DEF Step
<1> QED BY <1>1, <1>2 DEF Next

\* In every behaviour of the catalogue a parent has a row, and as long as no two
\* handlers overlap the categories close no circle and what is offered is in an
\* active one.
THEOREM TreeInvariance == Spec => [](Inv /\ TreeInv)
<1>1. Inv /\ TreeInv /\ [Next]_vars => TreeInv'
  BY TreeNext
<1>2. Init => TreeInv
  BY TreeInit
<1> QED BY <1>1, <1>2, Invariance, PTL DEF Spec

\* As long as no two handlers are in flight together, the search finds every
\* listing that is offered: a category is deleted only after isUsedByListings has
\* found none in it, and a listing is filed only where assertActiveCategory
\* has looked.
THEOREM FiledSafety == Spec => []ListingsAreFiled
<1>1. TreeInv => ListingsAreFiled
  BY DEF TreeInv, Placed, MayFile, ListingsAreFiled, Searched, Matches
<1> QED BY <1>1, TreeInvariance, PTL
\* A property of the natural numbers that fails somewhere fails first somewhere.
LEMMA FirstFailure ==
    ASSUME NEW Bad \in SUBSET Nat, Bad # {}
    PROVE  \E n \in Bad : \A m \in Bad : n <= m
<1>1. IsWellFoundedOn(OpToRel(<, Nat), Nat)
  BY NatLessThanWellFounded
<1>2. PICK n \in Bad : \A m \in Bad : <<m, n>> \notin OpToRel(<, Nat)
  <2> DEFINE R == OpToRel(<, Nat)
  <2>1. IsWellFoundedOn(R, Nat)
    BY <1>1
  <2> HIDE DEF R
  <2>2. \E n \in Bad : \A m \in Bad : ~ (<<m, n>> \in R)
    BY <2>1, WFMin
  <2> QED BY <2>2 DEF R
<1>3. \A m \in Bad : ~(m < n)
  BY <1>2 DEF OpToRel
<1> QED BY <1>3

\* One category further up, and None above the last
Upper(x) == IF x = None \/ ~Exists(x) THEN None ELSE category[x].parent

\* f leads up from c in k steps.
IsLadder(f, c, k) ==
    /\ f = [n \in 0..k |-> f[n]]
    /\ f[0] = c
    /\ \A n \in 1..k : f[n] = Upper(f[n - 1])

\* There is a ladder of every length: the shortest that there is not would be one
\* step longer than one that there is.
LEMMA LadderExists ==
    ASSUME NEW c, NEW N \in Nat
    PROVE  \E f : IsLadder(f, c, N)
<1> DEFINE Bad == {k \in Nat : ~ \E f : IsLadder(f, c, k)}
<1> SUFFICES ASSUME Bad # {} PROVE FALSE
  OBVIOUS
<1>1. PICK k \in Bad : \A m \in Bad : k <= m
  <2>1. Bad \in SUBSET Nat
    OBVIOUS
  <2> HIDE DEF Bad
  <2> QED BY <2>1, FirstFailure
<1>2. k \in Nat
  OBVIOUS
<1>3. CASE k = 0
  <2> DEFINE f == [n \in 0..0 |-> c]
  <2>1. IsLadder(f, c, 0)
    BY DEF IsLadder
  <2> QED BY <1>1, <1>3, <2>1
<1>4. CASE k # 0
  <2>1. k - 1 \in Nat /\ k - 1 \notin Bad
    <3>1. k - 1 \in Nat /\ ~(k <= k - 1)
      BY <1>2, <1>4
    <3> QED BY <1>1, <3>1
  <2>2. PICK g : IsLadder(g, c, k - 1)
    BY <2>1
  <2> DEFINE f == [n \in 0..k |-> IF n = k THEN Upper(g[k - 1]) ELSE g[n]]
  <2>3. /\ f = [n \in 0..k |-> f[n]]
        /\ \A n \in 0..(k - 1) : f[n] = g[n]
        /\ f[k] = Upper(g[k - 1])
    <3> DEFINE e(n) == IF n = k THEN Upper(g[k - 1]) ELSE g[n]
    <3>1. /\ \A n \in 0..k : f[n] = e(n)
          /\ f = [n \in 0..k |-> e(n)]
      OBVIOUS
    <3>2. \A n \in 0..(k - 1) : n \in 0..k /\ n # k
      BY <1>2
    <3>3. k \in 0..k
      BY <1>2
    <3>4. f = [n \in 0..k |-> f[n]]
      OBVIOUS
    <3> QED BY <3>1, <3>2, <3>3, <3>4
  <2> HIDE DEF f
  <2>4. f[0] = c
    <3>1. 0 \in 0..(k - 1)
      BY <1>2, <1>4
    <3>2. f[0] = g[0]
      BY <2>3, <3>1
    <3>3. g[0] = c
      BY <2>2 DEF IsLadder
    <3> QED BY <3>2, <3>3
  <2>5. ASSUME NEW n \in 1..k PROVE f[n] = Upper(f[n - 1])
    <3>1. n - 1 \in 0..(k - 1) /\ n \in Int
      BY <1>2
    <3>2. f[n - 1] = g[n - 1]
      BY <2>3, <3>1
    <3>3. CASE n = k
      BY <2>3, <3>2, <3>3
    <3>4. CASE n # k
      <4>1. n \in 0..(k - 1) /\ n \in 1..(k - 1)
        BY <1>2, <3>4
      <4>2. f[n] = g[n] /\ g[n] = Upper(g[n - 1])
        BY <2>2, <2>3, <4>1 DEF IsLadder
      <4> QED BY <3>2, <4>2
    <3> QED BY <3>3, <3>4
  <2>6. IsLadder(f, c, k)
    BY <2>3, <2>4, <2>5 DEF IsLadder
  <2> QED BY <1>1, <2>6
<1> QED BY <1>3, <1>4

\* What is above c are the steps of a ladder.
LEMMA AboveIsLadder ==
    ASSUME NEW c
    PROVE  /\ Cardinality(Categories) \in Nat
           /\ \E f : /\ IsLadder(f, c, Cardinality(Categories))
                     /\ Above(c) = {f[n] : n \in 1..Cardinality(Categories)}
<1> DEFINE N == Cardinality(Categories)
           Climbs(f) == f = [n \in 0..N |->
                               IF n = 0 THEN c
                               ELSE IF f[n-1] = None \/ ~Exists(f[n-1]) THEN None
                                    ELSE category[f[n-1]].parent]
<1>1. N \in Nat
  BY CategoriesAssumption, FS_CardinalityType
<1>2. \A f : IsLadder(f, c, N) => Climbs(f)
  <2> SUFFICES ASSUME NEW f, IsLadder(f, c, N) PROVE Climbs(f)
    OBVIOUS
  <2> DEFINE h == [n \in 0..N |-> IF n = 0 THEN c
                               ELSE IF f[n-1] = None \/ ~Exists(f[n-1]) THEN None
                                    ELSE category[f[n-1]].parent]
  <2> HIDE DEF N
  <2>1. ASSUME NEW n \in 0..N PROVE f[n] = h[n]
    <3>1. CASE n = 0
      BY <3>1 DEF IsLadder
    <3>2. CASE n # 0
      <4>1. n \in 1..N
        BY <1>1, <3>2
      <4> QED BY <3>2, <4>1 DEF IsLadder, Upper
    <3> QED BY <3>1, <3>2
  <2>2. f = [n \in 0..N |-> f[n]] /\ h = [n \in 0..N |-> h[n]]
    BY DEF IsLadder
  <2> HIDE DEF h
  <2>3. f = h
    BY <2>1, <2>2
  <2> QED BY <2>3 DEF h
<1>3. \A f : Climbs(f) => IsLadder(f, c, N)
  <2> HIDE DEF N
  <2> SUFFICES ASSUME NEW f, Climbs(f) PROVE IsLadder(f, c, N)
    OBVIOUS
  <2>1. \A n \in 0..N : f[n] = IF n = 0 THEN c
                               ELSE IF f[n-1] = None \/ ~Exists(f[n-1]) THEN None
                                    ELSE category[f[n-1]].parent
    OBVIOUS
  <2>2. f = [n \in 0..N |-> f[n]]
    OBVIOUS
  <2>3. f[0] = c /\ \A n \in 1..N : n \in 0..N /\ n # 0
    BY <1>1, <2>1
  <2> QED BY <2>1, <2>2, <2>3 DEF IsLadder, Upper
<1>4. PICK g : IsLadder(g, c, N)
  BY <1>1, LadderExists
<1> DEFINE up == CHOOSE f : Climbs(f)
<1>5. Climbs(up)
  <2> HIDE DEF Climbs
  <2> QED BY <1>2, <1>4
<1>6. Above(c) = {up[n] : n \in 1..N}
  BY DEF Above
<1> HIDE DEF up
<1> QED BY <1>1, <1>3, <1>5, <1>6
\* A category that is above itself would close a circle: the categories from it
\* up to itself all have their parents among them.
LEMMA NoCircle ==
    ASSUME Inv, Linked, Rooted, NEW c \in DOMAIN category, c \in Above(c)
    PROVE  FALSE
<1> DEFINE N == Cardinality(Categories)
           D == DOMAIN category
<1>1. PICK f : IsLadder(f, c, N) /\ Above(c) = {f[n] : n \in 1..N}
  BY AboveIsLadder
<1>2. N \in Nat /\ None \notin D
  BY AboveIsLadder, NoneAssumption DEF Inv, TablesOK
<1>3. PICK n \in 1..N : f[n] = c
  BY <1>1
<1> HIDE DEF N
<1>4. n \in Nat /\ n >= 1 /\ n <= N
  BY <1>2
<1>5. /\ f[0] = c
      /\ \A k \in 1..n : f[k] = Upper(f[k - 1])
  <2>1. \A k \in 1..n : k \in 1..N
    BY <1>2, <1>4
  <2>2. f[0] = c /\ \A k \in 1..N : f[k] = Upper(f[k - 1])
    BY <1>1 DEF IsLadder
  <2> QED BY <2>1, <2>2
<1>6. \A k \in 0..n : f[k] \in D
  <2> SUFFICES ASSUME NEW k \in 0..n, f[k] \notin D PROVE FALSE
    OBVIOUS
  <2> DEFINE Back == {j \in Nat : k < j /\ j <= n /\ f[j] \in D}
  <2>1. n \in Back
    BY <1>3, <1>4
  <2>2. PICK j \in Back : \A i \in Back : j <= i
    <3>1. Back \in SUBSET Nat /\ Back # {}
      BY <2>1
    <3> HIDE DEF Back
    <3> QED BY <3>1, FirstFailure
  <2>3. j \in Nat /\ k < j /\ j <= n /\ f[j] \in D /\ k \in Nat
    BY <1>4
  <2>4. f[j - 1] \notin D
    <3>1. CASE j - 1 = k
      BY <3>1
    <3>2. CASE j - 1 # k
      <4>1. j - 1 \in Nat /\ k < j - 1 /\ j - 1 <= n /\ ~(j <= j - 1)
        BY <1>4, <2>3, <3>2
      <4>2. j - 1 \notin Back
        BY <2>2, <4>1
      <4> QED BY <4>1, <4>2
    <3> QED BY <3>1, <3>2
  <2>5. f[j] = Upper(f[j - 1])
    <3>1. j \in 1..n
      BY <1>4, <2>3
    <3> QED BY <1>5, <3>1
  <2>6. f[j] = None
    BY <2>4, <2>5 DEF Upper, Exists
  <2> QED BY <1>2, <2>3, <2>6
<1> DEFINE S == {f[k] : k \in 0..(n - 1)}
<1>7. S \in SUBSET D /\ c \in S
  <2>1. 0 \in 0..(n - 1) /\ \A k \in 0..(n - 1) : k \in 0..n
    BY <1>4
  <2> QED BY <1>5, <1>6, <2>1
<1>8. PICK d \in S : category[d].parent \notin S
  BY <1>7 DEF Rooted
<1>9. PICK k \in 0..(n - 1) : d = f[k]
  OBVIOUS
<1>10. k + 1 \in 1..n /\ (k + 1) - 1 = k /\ (k + 1 = n \/ k + 1 \in 0..(n - 1))
  BY <1>4
<1>11. f[k + 1] = Upper(d)
  <2>1. f[k + 1] = Upper(f[(k + 1) - 1])
    BY <1>5, <1>10
  <2> QED BY <1>9, <1>10, <2>1
<1>12. f[k + 1] = category[d].parent
  BY <1>2, <1>7, <1>11 DEF Upper, Exists
<1>13. f[k + 1] \in S
  BY <1>3, <1>7, <1>10
<1> QED BY <1>8, <1>12, <1>13

\* As long as no two handlers are in flight together, no category is above itself:
\* the loop of assertNoCycle sees every category above the new parent, so what a
\* move joins was not joined before.
THEOREM TreeSafety == Spec => []CategoriesAreATree
<1>1. Inv /\ TreeInv => CategoriesAreATree
  BY NoCircle DEF TreeInv, CategoriesAreATree
<1> QED BY <1>1, TreeInvariance, PTL

=============================================================================
