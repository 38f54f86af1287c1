----------------------------- MODULE Community -----------------------------
(***************************************************************************)
(* Guides: their publication under moderation, and what readers leave on   *)
(* them (likes, favourites, comments).                                     *)
(*                                                                         *)
(* The handlers of routes.py run without an await, save the upload, which  *)
(* waits for its files between the row of the guide and the row of its     *)
(* review.  Every statement commits by itself: a handler commits all of    *)
(* its statements or, when one raises or the process dies, the first few.  *)
(* Ids are drawn at random, so a guide that is gone never comes back.      *)
(* created_at is in whole seconds of a clock that may be set back: guides  *)
(* can share one, and no query orders them any further.                    *)
(***************************************************************************)
EXTENDS Naturals, Sequences, SequencesExt, FiniteSetsExt

CONSTANTS
  Guides,
  Readers,
  MaxReviews,      \* bound on the rows of reviews ever written
  MaxBreaks,       \* bound on handlers that break off
  MaxSecond        \* bound on created_at

ASSUME BoundsAssumption == MaxReviews \in Nat /\ MaxBreaks \in Nat /\ MaxSecond \in Nat

VARIABLES
  guides,          \* the table, a row for each guide that is there
  born,            \* the guides ever created
  marks,           \* likes and favorites: <<kind, guide, reader>>
  comments,        \* who commented on what
  reviews,         \* the table
  written,         \* how many rows reviews ever had
  uploading,       \* the guides whose upload waits for its files
  breaks,
  torn             \* what broken handlers left undone: <<guide, part>>

communityVars ==
  <<guides, born, marks, comments, reviews, written, uploading, breaks, torn>>

-----------------------------------------------------------------------------
Kinds == {"likes", "favorites"}
Decisions == {"approved", "rejected"}
GuideRow ==
  [status : {"pending"} \cup Decisions, likes : Nat, favorites : Nat,
   created_at : 0 .. MaxSecond]
Review == [id : 1 .. MaxReviews, guide : Guides, status : {"pending"} \cup Decisions]

Exists(g) == g \in DOMAIN guides

ReviewsOf(g) == {r \in reviews : r.guide = g}

CommunityTypeOK ==
  /\ DOMAIN guides \subseteq Guides
  /\ \A g \in DOMAIN guides : guides[g] \in GuideRow
  /\ born \subseteq Guides /\ DOMAIN guides \subseteq born
  /\ marks \subseteq Kinds \X Guides \X Readers
  /\ comments \subseteq Guides \X Readers
  /\ reviews \subseteq Review
  /\ written \in 0 .. MaxReviews
  /\ uploading \subseteq Guides
  /\ breaks \in 0 .. MaxBreaks
  /\ torn \subseteq Guides \X {"counts", "review"}

CommunityInit ==
  /\ guides = << >>
  /\ born = {}
  /\ marks = {}
  /\ comments = {}
  /\ reviews = {}
  /\ written = 0
  /\ uploading = {}
  /\ breaks = 0
  /\ torn = {}

-----------------------------------------------------------------------------
(* The first n of all statements of a handler commit; a handler that       *)
(* breaks off leaves the parts undone, a whole one mends the parts.        *)
Commits(n, all, parts) ==
  \/ /\ n = all
     /\ torn' = torn \ parts
     /\ UNCHANGED breaks
  \/ /\ n < all
     /\ breaks < MaxBreaks
     /\ breaks' = breaks + 1
     /\ torn' = torn \cup parts

(* One more row of reviews for g, which is the newest. *)
WithReview(rows, g, status) ==
  rows \cup {[id |-> written + 1, guide |-> g, status |-> status]}

(* create_review_if_missing: of the rows that are there only the newest    *)
(* is kept; a guide that is new has none.                                  *)
ReviewIfMissing(g) ==
  IF ReviewsOf(g) = {}
  THEN /\ written < MaxReviews
       /\ written' = written + 1
       /\ reviews' = WithReview(reviews, g, "pending")
  ELSE /\ reviews' = {r \in reviews :
                        r.guide = g => \A s \in ReviewsOf(g) : s.id <= r.id}
       /\ UNCHANGED written

InsertGuide(g) == \E now \in 0 .. MaxSecond :
  /\ g \notin born
  /\ born' = born \cup {g}
  /\ guides' = [h \in DOMAIN guides \cup {g} |->
                  IF h = g THEN [status |-> "pending", likes |-> 0, favorites |-> 0,
                                 created_at |-> now]
                           ELSE guides[h]]

(* create_guide, and create_guide_upload without files: the guide, then    *)
(* its review.                                                             *)
CreateGuide(g) == \E n \in 1 .. 2 :
  /\ InsertGuide(g)
  /\ IF n = 2 THEN ReviewIfMissing(g) ELSE UNCHANGED <<reviews, written>>
  /\ Commits(n, 2, {<<g, "review">>})
  /\ UNCHANGED <<marks, comments, uploading>>

UploadStarts(g) ==
  /\ InsertGuide(g)
  /\ uploading' = uploading \cup {g}
  /\ UNCHANGED <<marks, comments, reviews, written, breaks, torn>>

(* The files are there, or reading them fails.  The handler does not look  *)
(* whether the guide still is.                                             *)
UploadEnds(g) == \E n \in 0 .. 1 :
  /\ g \in uploading
  /\ uploading' = uploading \ {g}
  /\ IF n = 1 THEN ReviewIfMissing(g) ELSE UNCHANGED <<reviews, written>>
  /\ Commits(n, 1, {<<g, "review">>})
  /\ UNCHANGED <<guides, born, marks, comments>>

(* Mutant: the favourites of a deleted guide stay. *)
DeleteGuideKeepsFavorites(g) == \E n \in 1 .. 4 :
  /\ Exists(g)
  /\ marks' = {m \in marks : ~ (m[1] = "likes" /\ m[2] = g)}
  /\ comments' = {c \in comments : n < 2 \/ c[1] # g}
  /\ reviews' = {r \in reviews : n < 3 \/ r.guide # g}
  /\ guides' = IF n = 4 THEN Restrict(guides, DOMAIN guides \ {g}) ELSE guides
  /\ Commits(n, 4, {g} \X {"counts", "review"})
  /\ UNCHANGED <<born, written, uploading>>

(* delete_guide: the row of the guide goes last. *)
DeleteGuide(g) == \E n \in 1 .. 5 :
  /\ Exists(g)
  /\ marks' = {m \in marks : ~ \/ n >= 1 /\ m[1] = "likes" /\ m[2] = g
                               \/ n >= 2 /\ m[1] = "favorites" /\ m[2] = g}
  /\ comments' = {c \in comments : n < 3 \/ c[1] # g}
  /\ reviews' = {r \in reviews : n < 4 \/ r.guide # g}
  /\ guides' = IF n = 5 THEN Restrict(guides, DOMAIN guides \ {g}) ELSE guides
  /\ Commits(n, 5, {g} \X {"counts", "review"})
  /\ UNCHANGED <<born, written, uploading>>

-----------------------------------------------------------------------------
Count(rows, kind, g) == Cardinality({m \in rows : m[1] = kind /\ m[2] = g})

(* Mutant: only the likes are counted again. *)
LikesRecounted(rows, g) ==
  [guides EXCEPT ![g].likes = Count(rows, "likes", g)]

(* _refresh_guide_counts: both counts, from the rows. *)
Recounted(rows, g) ==
  [guides EXCEPT ![g].likes = Count(rows, "likes", g),
                 ![g].favorites = Count(rows, "favorites", g)]

(* like_guide and favorite_guide, given or taken back. *)
React(g, kind, u) == \E n \in 1 .. 2, on \in BOOLEAN :
  /\ Exists(g)
  /\ marks' = IF on THEN marks \cup {<<kind, g, u>>} ELSE marks \ {<<kind, g, u>>}
  /\ guides' = IF n = 2 THEN Recounted(marks', g) ELSE guides
  /\ Commits(n, 2, {<<g, "counts">>})
  /\ UNCHANGED <<born, comments, reviews, written, uploading>>

(* comment_guide takes any id; a page may still show a guide that is gone. *)
Comment(g, u) ==
  /\ g \in born
  /\ comments' = comments \cup {<<g, u>>}
  /\ UNCHANGED <<guides, born, marks, reviews, written, uploading, breaks, torn>>

(* Mutant: the guide gets the verdict, its review waits on. *)
DecideGuideOnly(r, v) ==
  /\ r.status = "pending" /\ Exists(r.guide)
  /\ guides' = [guides EXCEPT ![r.guide].status = v]
  /\ UNCHANGED <<born, marks, comments, reviews, written, uploading, breaks, torn>>

(* Mutant: any review is decided, also one that was. *)
DecideAgain(r, v) ==
  /\ Exists(r.guide)
  /\ guides' = [guides EXCEPT ![r.guide].status = v]
  /\ reviews' = (reviews \ {r}) \cup {[r EXCEPT !.status = v]}
  /\ UNCHANGED <<born, marks, comments, written, uploading, breaks, torn>>

(* decide_review and update_guide_status: the review is decided if it is   *)
(* pending, its rivals are dropped, the guide gets the verdict and, if it  *)
(* is there, a second row of reviews that says so.                         *)
Decide(r, v) == \E n \in 1 .. 4 :
  LET decided == [r EXCEPT !.status = v]
      others == {s \in reviews : s.guide = r.guide /\ s # r}
      kept == (reviews \ {r}) \cup {decided}
      alone == IF n >= 2 THEN kept \ others ELSE kept
  IN /\ r.status = "pending"
     /\ guides' = IF n >= 3 /\ Exists(r.guide)
                  THEN [guides EXCEPT ![r.guide].status = v]
                  ELSE guides
     /\ IF n = 4 /\ Exists(r.guide)
        THEN /\ written < MaxReviews
             /\ written' = written + 1
             /\ reviews' = WithReview(alone, r.guide, v)
        ELSE /\ reviews' = alone
             /\ UNCHANGED written
     /\ Commits(n, 4, {<<r.guide, "review">>})
     /\ UNCHANGED <<born, marks, comments, uploading>>

(* The server starts again: uploads are lost, and init_db keeps the newest *)
(* review of each guide.                                                   *)
ServerStarts ==
  /\ reviews' = {r \in reviews : \A s \in ReviewsOf(r.guide) : s.id <= r.id}
  /\ uploading' = {}
  /\ torn' = torn \cup (uploading \X {"review"})
  /\ UNCHANGED <<guides, born, marks, comments, written, breaks>>

CommunityNext ==
  \/ ServerStarts
  \/ \E g \in Guides :
       \/ CreateGuide(g) \/ UploadStarts(g) \/ UploadEnds(g) \/ DeleteGuide(g)
       \/ \E u \in Readers :
            \/ Comment(g, u)
            \/ \E kind \in Kinds : React(g, kind, u)
  \/ \E r \in reviews, v \in Decisions : Decide(r, v)

CommunitySpec == CommunityInit /\ [][CommunityNext]_communityVars

-----------------------------------------------------------------------------
(* What the pages show.                                                    *)

PageCount(total, size) == IF total = 0 THEN 1 ELSE (total + size - 1) \div size

PageOfRows(rows, page, size) ==
  SubSeq(rows, (page - 1) * size + 1, Min({page * size, Len(rows)}))

(* Reading on from the first page, one page after the other: each is a     *)
(* query of its own, and reading says in which order it found the rows.    *)
AllPages(reading, size, pages) ==
  LET upTo[p \in 0 .. pages] ==
        IF p = 0 THEN << >> ELSE upTo[p - 1] \o PageOfRows(reading[p], p, size)
  IN upTo[pages]

(* paginate_liked_guides and paginate_favorites: the total counts the      *)
(* reader's rows, the items join them with the guides, the newest first.   *)
(* The order of those of one second is left to each query.                 *)
MarkedTotal(kind, u) == Cardinality({m \in marks : m[1] = kind /\ m[3] = u})

Marked(kind, u) == {g \in DOMAIN guides : <<kind, g, u>> \in marks}

NewestFirst(rows) ==
  \A i, j \in DOMAIN rows : i < j => guides[rows[i]].created_at >= guides[rows[j]].created_at

MarkedItems(kind, u) == {rows \in SetToSeqs(Marked(kind, u)) : NewestFirst(rows)}

(* list_reviews and admin_reviews: one row for each guide, a pending one   *)
(* before all others, else the newest.                                     *)
QueueRow(g) ==
  LET pending == {r \in ReviewsOf(g) : r.status = "pending"}
      rows == IF pending = {} THEN ReviewsOf(g) ELSE pending
  IN CHOOSE r \in rows : \A s \in rows : s.id <= r.id

-----------------------------------------------------------------------------
(* Unless the last handler that touched a guide broke off between a mark   *)
(* and the recount (db.py 1556-1592), the counts by which the guides are   *)
(* ranked are those of the rows; any whole reaction mends both.            *)
CountsMatchRows ==
  \A g \in DOMAIN guides :
    <<g, "counts">> \notin torn =>
      /\ guides[g].likes = Count(marks, "likes", g)
      /\ guides[g].favorites = Count(marks, "favorites", g)

(* What is shown of a kind, size rows a page, whatever order each page is  *)
(* read in.                                                                *)
PagesShow(kind, u, size) ==
  LET total == MarkedTotal(kind, u)
      pages == PageCount(total, size)
      At(t, g) == guides[g].created_at = t
  IN \A reading \in [1 .. pages -> MarkedItems(kind, u)] :
       LET shown == AllPages(reading, size, pages)
       IN /\ Len(shown) = total
          /\ \A i \in DOMAIN shown : shown[i] \in Marked(kind, u)
          /\ \A t \in 0 .. MaxSecond :
               Cardinality({i \in DOMAIN shown : At(t, shown[i])})
                 = Cardinality({g \in Marked(kind, u) : At(t, g)})

(* Paging through one's likes or favourites shows as many as the total     *)
(* says, whatever was deleted, also half-way: no row of likes or favorites *)
(* outlives its guide (db.py 1460, 1518, 1609).  Of each second it shows   *)
(* as many as are marked, so a guide alone in its second is shown once.    *)
(* Those that share one may change places between two queries (db.py 20,   *)
(* 1476, 1622): where a page ends, one of them can be shown twice and      *)
(* another never.                                                          *)
PagesShowAllMarks ==
  \A kind \in Kinds, u \in Readers, size \in 1 .. 2 : PagesShow(kind, u, size)

(* A guide that waits can be decided on: unless a handler broke off, it    *)
(* has one pending review and that is the row the administrators are       *)
(* shown.  A guide that was decided on has reviews that all say what it    *)
(* is: no verdict is kept beside another, and none waits any more          *)
(* (routes.py 1305, 1108, 1132; db.py 1539, 1834).                         *)
ReviewsFollowGuides ==
  \A g \in DOMAIN guides :
    g \notin uploading /\ <<g, "review">> \notin torn =>
      /\ ReviewsOf(g) # {}
      /\ IF guides[g].status = "pending"
         THEN {r \in ReviewsOf(g) : r.status = "pending"} = {QueueRow(g)}
         ELSE \A r \in ReviewsOf(g) : r.status = guides[g].status

(* Where a guide is on the moderation desk.                                *)
Place(g) ==
  IF Exists(g)
  THEN IF guides[g].status = "pending" THEN "waiting" ELSE guides[g].status
  ELSE IF g \in born THEN "withdrawn" ELSE "new"

places == [g \in Guides |-> Place(g)]

Desk == INSTANCE Moderation WITH desk <- places

(* The five tables implement the moderation desk, broken handlers          *)
(* included: a verdict is never changed, and what is gone stays gone.      *)
ModerationKept == Desk!Spec
=============================================================================
