-------------------------- MODULE CommunityProofs --------------------------
(***************************************************************************)
(* What TLAPS proves about Community, for any guides and readers, whatever *)
(* handlers break off: it implements the moderation desk, its counts and   *)
(* reviews agree with the rows, and its pages show, second by second, what *)
(* is marked, in whatever order a query finds the guides of one second.    *)
(***************************************************************************)
EXTENDS Community, FiniteSetTheorems, SequenceTheorems, SequenceFacts

(* The tables hold what they may hold.                                     *)
TablesTyped ==
  /\ born \subseteq Guides
  /\ guides \in [DOMAIN guides -> GuideRow]
  /\ DOMAIN guides \subseteq born
  /\ IsFiniteSet(marks)
  /\ reviews \subseteq Review
  /\ written \in 0 .. MaxReviews

(* A guide whose upload is not over waits, and nobody can decide on it.    *)
UploadsWait ==
  \A g \in uploading :
    /\ g \in born
    /\ ReviewsOf(g) = {}
    /\ Exists(g) => guides[g].status = "pending"

(* A review that can be decided on is that of a guide which waits, or is   *)
(* gone.                                                                   *)
PendingWait ==
  \A r \in reviews :
    /\ r.guide \in born
    /\ r.status = "pending" /\ Exists(r.guide) => guides[r.guide].status = "pending"

CommunityInv == TablesTyped /\ UploadsWait /\ PendingWait

(* The guides that are there, and their verdicts, stay the same.           *)
SameVerdicts ==
  /\ guides' \in [DOMAIN guides -> GuideRow]
  /\ \A g \in DOMAIN guides : guides'[g].status = guides[g].status

-----------------------------------------------------------------------------
(* A new guide is in the table, and waits.                                 *)
LEMMA InsertKeeps ==
  ASSUME TablesTyped, NEW g \in Guides, InsertGuide(g)
  PROVE  /\ born' \subseteq Guides /\ born' = born \cup {g} /\ g \notin born
         /\ DOMAIN guides' = DOMAIN guides \cup {g} /\ g \notin DOMAIN guides
         /\ guides' \in [DOMAIN guides' -> GuideRow]
         /\ guides'[g].status = "pending"
         /\ \A h \in DOMAIN guides : guides'[h] = guides[h]
<1>1. born' \subseteq Guides /\ born' = born \cup {g} /\ g \notin born
  BY DEF TablesTyped, InsertGuide
<1>2. g \notin DOMAIN guides
  BY <1>1 DEF TablesTyped
<1>0. PICK now \in 0 .. MaxSecond :
        guides' = [h \in DOMAIN guides \cup {g} |->
                     IF h = g THEN [status |-> "pending", likes |-> 0, favorites |-> 0,
                                    created_at |-> now]
                              ELSE guides[h]]
  BY DEF InsertGuide
<1> DEFINE fresh == [status |-> "pending", likes |-> 0, favorites |-> 0, created_at |-> now]
<1>3. fresh \in GuideRow /\ fresh.status = "pending"
  BY DEF GuideRow
<1>4. guides' = [h \in DOMAIN guides \cup {g} |-> IF h = g THEN fresh ELSE guides[h]]
  BY <1>0
<1>5. QED
  BY <1>1, <1>2, <1>3, <1>4 DEF TablesTyped

(* What is counted is a number.                                            *)
LEMMA CountIsNat ==
  ASSUME NEW rows, IsFiniteSet(rows), NEW kind, NEW g
  PROVE  Count(rows, kind, g) \in Nat
<1>1. IsFiniteSet({m \in rows : m[1] = kind /\ m[2] = g})
  BY FS_Subset
<1>2. QED
  BY <1>1, FS_CardinalityType DEF Count

(* A change of counts changes no verdict.                                  *)
LEMMA RecountKeeps ==
  ASSUME TablesTyped, NEW g \in DOMAIN guides, NEW rows, IsFiniteSet(rows),
         guides' = Recounted(rows, g)
  PROVE  SameVerdicts
<1> DEFINE row == [guides[g] EXCEPT !.likes = Count(rows, "likes", g),
                                    !.favorites = Count(rows, "favorites", g)]
<1>1. Count(rows, "likes", g) \in Nat /\ Count(rows, "favorites", g) \in Nat
  BY CountIsNat
<1>2. guides[g] \in GuideRow
  BY DEF TablesTyped
<1>3. row \in GuideRow /\ row.status = guides[g].status
  BY <1>1, <1>2 DEF GuideRow
<1>4. guides' = [guides EXCEPT ![g] = row]
  BY Zenon DEF Recounted
<1>5. QED
  BY <1>3, <1>4 DEF TablesTyped, SameVerdicts

(* A review more, and what create_review_if_missing leaves.                *)
LEMMA ReviewAdded ==
  ASSUME TablesTyped, written < MaxReviews, NEW rows \in SUBSET Review, NEW g \in Guides,
         NEW status \in {"pending"} \cup Decisions
  PROVE  /\ WithReview(rows, g, status) \subseteq Review
         /\ written + 1 \in 0 .. MaxReviews
         /\ \A r \in WithReview(rows, g, status) :
              r \in rows \/ (r.guide = g /\ r.status = status)
<1>1. written + 1 \in 1 .. MaxReviews
  BY BoundsAssumption DEF TablesTyped
<1>2. [id |-> written + 1, guide |-> g, status |-> status] \in Review
  BY <1>1 DEF Review
<1>3. QED
  BY <1>1, <1>2 DEF WithReview

LEMMA ReviewIfMissingAdds ==
  ASSUME TablesTyped, NEW g \in Guides, ReviewIfMissing(g)
  PROVE  /\ reviews' \subseteq Review /\ written' \in 0 .. MaxReviews
         /\ \A r \in reviews' : r \in reviews \/ (r.guide = g /\ r.status = "pending")
<1>1. CASE ReviewsOf(g) = {}
  BY <1>1, ReviewAdded DEF TablesTyped, ReviewIfMissing
<1>2. CASE ReviewsOf(g) # {}
  BY <1>2 DEF TablesTyped, ReviewIfMissing
<1>3. QED
  BY <1>1, <1>2

(* Whatever takes reviews away, or guides, and changes no verdict keeps    *)
(* the invariant.                                                          *)
LEMMA LossKeeps ==
  ASSUME CommunityInv, born' = born, written' = written, IsFiniteSet(marks'),
         reviews' \subseteq reviews, uploading' \subseteq uploading,
         DOMAIN guides' \subseteq DOMAIN guides,
         guides' \in [DOMAIN guides' -> GuideRow],
         \A g \in DOMAIN guides' : guides'[g].status = guides[g].status
  PROVE  CommunityInv'
<1>2. TablesTyped'
  BY DEF CommunityInv, TablesTyped
<1>3. UploadsWait'
  BY DEF CommunityInv, UploadsWait, ReviewsOf, Exists
<1>4. PendingWait'
  BY DEF CommunityInv, PendingWait, Exists
<1>5. QED
  BY <1>2, <1>3, <1>4 DEF CommunityInv

-----------------------------------------------------------------------------
LEMMA CommunityInitially == CommunityInit => CommunityInv
<1> SUFFICES ASSUME CommunityInit PROVE CommunityInv
  OBVIOUS
<1>1. IsFiniteSet(marks)
  BY FS_EmptySet DEF CommunityInit
<1>2. TablesTyped
  BY <1>1, BoundsAssumption DEF CommunityInit, TablesTyped
<1>3. QED
  BY <1>2 DEF CommunityInit, CommunityInv, UploadsWait, PendingWait

LEMMA CreateKeeps ==
  ASSUME CommunityInv, NEW g \in Guides, CreateGuide(g)
  PROVE  CommunityInv'
<1> USE DEF CommunityInv
<1>1. InsertGuide(g) /\ marks' = marks /\ uploading' = uploading
  BY DEF CreateGuide
<1>2. /\ reviews' \subseteq Review /\ written' \in 0 .. MaxReviews
      /\ \A r \in reviews' : r \in reviews \/ (r.guide = g /\ r.status = "pending")
  BY ReviewIfMissingAdds DEF CreateGuide, TablesTyped
<1>3. TablesTyped'
  BY <1>1, <1>2, InsertKeeps DEF TablesTyped
<1>4. /\ born' = born \cup {g} /\ g \notin born
      /\ DOMAIN guides' = DOMAIN guides \cup {g} /\ DOMAIN guides \subseteq born
      /\ guides'[g].status = "pending"
      /\ \A h \in DOMAIN guides : guides'[h] = guides[h]
  BY <1>1, InsertKeeps DEF TablesTyped
<1>5. UploadsWait'
  BY <1>1, <1>2, <1>4 DEF UploadsWait, ReviewsOf, Exists
<1>6. PendingWait'
  BY <1>2, <1>4 DEF PendingWait, Exists
<1>7. QED
  BY <1>3, <1>5, <1>6

LEMMA UploadKeeps ==
  ASSUME CommunityInv, NEW g \in Guides, UploadStarts(g) \/ UploadEnds(g)
  PROVE  CommunityInv'
<1> USE DEF CommunityInv
<1>1. CASE UploadStarts(g)
  <2>1. /\ InsertGuide(g) /\ marks' = marks /\ reviews' = reviews /\ written' = written
        /\ uploading' = uploading \cup {g}
    BY <1>1 DEF UploadStarts
  <2>2. TablesTyped'
    BY <2>1, InsertKeeps DEF TablesTyped
  <2>3. /\ born' = born \cup {g} /\ g \notin born
        /\ DOMAIN guides' = DOMAIN guides \cup {g} /\ DOMAIN guides \subseteq born
        /\ guides'[g].status = "pending"
        /\ \A h \in DOMAIN guides : guides'[h] = guides[h]
    BY <2>1, InsertKeeps DEF TablesTyped
  <2>4. \A r \in reviews : r.guide # g
    BY <2>3 DEF PendingWait
  <2>5. UploadsWait'
    BY <2>1, <2>3, <2>4 DEF UploadsWait, ReviewsOf, Exists
  <2>6. PendingWait'
    BY <2>1, <2>3 DEF PendingWait, Exists
  <2>7. QED
    BY <2>2, <2>5, <2>6
<1>2. CASE UploadEnds(g)
  <2>1. /\ g \in uploading /\ uploading' = uploading \ {g}
        /\ guides' = guides /\ born' = born /\ marks' = marks
    BY <1>2 DEF UploadEnds
  <2>2. /\ reviews' \subseteq Review /\ written' \in 0 .. MaxReviews
        /\ \A r \in reviews' : r \in reviews \/ (r.guide = g /\ r.status = "pending")
    BY <1>2, ReviewIfMissingAdds DEF UploadEnds, TablesTyped
  <2>3. born' = born
    BY <2>1
  <2>4. TablesTyped'
    BY <2>1, <2>2, <2>3 DEF TablesTyped
  <2>5. UploadsWait'
    BY <2>1, <2>2, <2>3 DEF UploadsWait, ReviewsOf, Exists
  <2>6. PendingWait'
    BY <2>1, <2>2, <2>3 DEF UploadsWait, PendingWait, Exists
  <2>7. QED
    BY <2>4, <2>5, <2>6
<1>3. QED
  BY <1>1, <1>2

LEMMA DeleteKeeps ==
  ASSUME CommunityInv, NEW g \in Guides, DeleteGuide(g)
  PROVE  CommunityInv'
<1>1. marks' \subseteq marks /\ reviews' \subseteq reviews
  BY DEF DeleteGuide
<1>2. IsFiniteSet(marks')
  BY <1>1, FS_Subset DEF CommunityInv, TablesTyped
<1>3. guides' = guides \/ guides' = [h \in DOMAIN guides \ {g} |-> guides[h]]
  BY DEF DeleteGuide, Restrict
<1>4. /\ DOMAIN guides' \subseteq DOMAIN guides
      /\ guides' \in [DOMAIN guides' -> GuideRow]
      /\ \A h \in DOMAIN guides' : guides'[h].status = guides[h].status
  BY <1>3 DEF CommunityInv, TablesTyped
<1>5. QED
  BY <1>1, <1>2, <1>4, LossKeeps DEF DeleteGuide

(* A like or a favourite, or a comment, changes no verdict.                *)
LEMMA ReactKeeps ==
  ASSUME CommunityInv, NEW g \in Guides, NEW kind \in Kinds, NEW u \in Readers,
         React(g, kind, u)
  PROVE  CommunityInv' /\ SameVerdicts
<1>1. PICK on \in BOOLEAN :
        marks' = IF on THEN marks \cup {<<kind, g, u>>} ELSE marks \ {<<kind, g, u>>}
  BY DEF React
<1>2. IsFiniteSet(marks')
  BY <1>1, FS_AddElement, FS_Subset DEF CommunityInv, TablesTyped
<1>3. g \in DOMAIN guides /\ (guides' = Recounted(marks', g) \/ guides' = guides)
  BY DEF React, Exists
<1>4. SameVerdicts
  BY <1>2, <1>3, RecountKeeps DEF CommunityInv, TablesTyped, SameVerdicts
<1>5. QED
  BY <1>2, <1>4, LossKeeps DEF React, SameVerdicts

-----------------------------------------------------------------------------
(* A verdict touches one guide.                                            *)
LEMMA VerdictGiven ==
  ASSUME TablesTyped, NEW g \in DOMAIN guides, NEW v \in Decisions,
         guides' = [guides EXCEPT ![g].status = v]
  PROVE  /\ guides' \in [DOMAIN guides -> GuideRow]
         /\ guides'[g].status = v
         /\ \A h \in DOMAIN guides \ {g} : guides'[h] = guides[h]
<1> DEFINE row == [guides[g] EXCEPT !.status = v]
<1>1. guides[g] \in GuideRow
  BY DEF TablesTyped
<1>2. row \in GuideRow /\ row.status = v
  BY <1>1 DEF GuideRow
<1>3. guides' = [guides EXCEPT ![g] = row]
  BY Zenon
<1>4. QED
  BY <1>2, <1>3 DEF TablesTyped

(* What a decision commits: before the guide has the verdict nothing but   *)
(* reviews change, and once it has it no review of that guide waits.       *)
LEMMA DecideCommits ==
  ASSUME CommunityInv, NEW r \in reviews, NEW v \in Decisions, Decide(r, v)
  PROVE  /\ r.status = "pending" /\ r.guide \in Guides /\ r.guide \notin uploading
         /\ born' = born /\ marks' = marks /\ uploading' = uploading
         /\ reviews' \subseteq Review /\ written' \in 0 .. MaxReviews
         /\ \A s \in reviews' : s \in reviews \/ (s.guide = r.guide /\ s.status = v)
         /\ \/ guides' = guides
            \/ /\ Exists(r.guide)
               /\ guides' = [guides EXCEPT ![r.guide].status = v]
               /\ \A s \in reviews' : s.guide = r.guide => s.status = v
<1> USE DEF CommunityInv
<1> DEFINE decided == [r EXCEPT !.status = v]
           others == {s \in reviews : s.guide = r.guide /\ s # r}
           kept == (reviews \ {r}) \cup {decided}
           alone(n) == IF n >= 2 THEN kept \ others ELSE kept
<1>1. PICK n \in 1 .. 4 :
        /\ r.status = "pending"
        /\ guides' = IF n >= 3 /\ Exists(r.guide)
                     THEN [guides EXCEPT ![r.guide].status = v]
                     ELSE guides
        /\ IF n = 4 /\ Exists(r.guide)
           THEN /\ written < MaxReviews
                /\ written' = written + 1
                /\ reviews' = WithReview(alone(n), r.guide, v)
           ELSE /\ reviews' = alone(n)
                /\ UNCHANGED written
  BY DEF Decide
<1>2. r \in Review /\ r.guide \in Guides /\ reviews \subseteq Review
  BY DEF TablesTyped, Review
<1>3. decided \in Review /\ decided.guide = r.guide /\ decided.status = v
  BY <1>2 DEF Review
<1>4. r.guide \notin uploading
  BY DEF UploadsWait, ReviewsOf
<1> HIDE DEF decided
<1>5. /\ alone(n) \in SUBSET Review
      /\ \A s \in alone(n) : s \in reviews \/ (s.guide = r.guide /\ s.status = v)
      /\ n >= 3 => \A s \in alone(n) : s.guide = r.guide => s.status = v
  BY <1>2, <1>3
<1> HIDE DEF alone
<1>6. /\ reviews' \subseteq Review /\ written' \in 0 .. MaxReviews
      /\ \A s \in reviews' : s \in alone(n) \/ (s.guide = r.guide /\ s.status = v)
  <2>1. CASE n = 4 /\ Exists(r.guide)
    <3>1. v \in {"pending"} \cup Decisions
      OBVIOUS
    <3>2. written < MaxReviews /\ written' = written + 1
          /\ reviews' = WithReview(alone(n), r.guide, v)
      BY <1>1, <2>1
    <3>3. /\ WithReview(alone(n), r.guide, v) \subseteq Review
          /\ written + 1 \in 0 .. MaxReviews
          /\ \A s \in WithReview(alone(n), r.guide, v) :
               s \in alone(n) \/ (s.guide = r.guide /\ s.status = v)
      BY <1>2, <1>5, <3>1, <3>2, ReviewAdded
    <3>4. QED
      BY <3>2, <3>3
  <2>2. CASE ~ (n = 4 /\ Exists(r.guide))
    BY <1>1, <1>5, <2>2 DEF TablesTyped
  <2>3. QED
    BY <2>1, <2>2
<1>7. born' = born /\ marks' = marks /\ uploading' = uploading
  BY DEF Decide
<1>8. \A s \in reviews' : s \in reviews \/ (s.guide = r.guide /\ s.status = v)
  BY <1>5, <1>6
<1>9. \/ guides' = guides
      \/ /\ Exists(r.guide)
         /\ guides' = [guides EXCEPT ![r.guide].status = v]
         /\ \A s \in reviews' : s.guide = r.guide => s.status = v
  <2>1. CASE n >= 3 /\ Exists(r.guide)
    BY <1>1, <1>5, <1>6, <2>1
  <2>2. CASE ~ (n >= 3 /\ Exists(r.guide))
    BY <1>1, <2>2
  <2>3. QED
    BY <2>1, <2>2
<1>10. QED
  BY <1>1, <1>2, <1>4, <1>6, <1>7, <1>8, <1>9

LEMMA DecideKeeps ==
  ASSUME CommunityInv, NEW r \in reviews, NEW v \in Decisions, Decide(r, v)
  PROVE  CommunityInv'
<1> USE DEF CommunityInv
<1>1. /\ r.status = "pending" /\ r.guide \in Guides /\ r.guide \notin uploading
      /\ born' = born /\ marks' = marks /\ uploading' = uploading
      /\ reviews' \subseteq Review /\ written' \in 0 .. MaxReviews
      /\ \A s \in reviews' : s \in reviews \/ (s.guide = r.guide /\ s.status = v)
  BY DecideCommits
<1>2. /\ guides' \in [DOMAIN guides -> GuideRow]
      /\ \A h \in DOMAIN guides \ {r.guide} : guides'[h] = guides[h]
      /\ guides' = guides \/ \A s \in reviews' : s.guide = r.guide => s.status = v
  <2>1. CASE guides' = guides
    BY <2>1 DEF TablesTyped
  <2>2. CASE guides' # guides
    <3>1. /\ r.guide \in DOMAIN guides
          /\ guides' = [guides EXCEPT ![r.guide].status = v]
          /\ \A s \in reviews' : s.guide = r.guide => s.status = v
      BY <2>2, DecideCommits DEF Exists
    <3>2. /\ guides' \in [DOMAIN guides -> GuideRow]
          /\ \A h \in DOMAIN guides \ {r.guide} : guides'[h] = guides[h]
      BY <3>1, VerdictGiven
    <3>3. QED
      BY <3>1, <3>2
  <2>3. QED
    BY <2>1, <2>2
<1>3. born' = born /\ r.guide \in born /\ v # "pending"
  BY <1>1 DEF PendingWait, Decisions
<1>4. TablesTyped'
  BY <1>1, <1>2, <1>3 DEF TablesTyped
<1>5. UploadsWait'
  BY <1>1, <1>2, <1>3 DEF UploadsWait, ReviewsOf, Exists
<1>6. PendingWait'
  BY <1>1, <1>2, <1>3 DEF PendingWait, Exists
<1>7. QED
  BY <1>4, <1>5, <1>6

LEMMA CommunityStep ==
  CommunityInv /\ [CommunityNext]_communityVars => CommunityInv'
<1> SUFFICES ASSUME CommunityInv, [CommunityNext]_communityVars PROVE CommunityInv'
  OBVIOUS
<1>1. guides \in [DOMAIN guides -> GuideRow] /\ IsFiniteSet(marks)
  BY DEF CommunityInv, TablesTyped
<1>2. CASE ServerStarts
  <2>1. reviews' \subseteq reviews
    BY <1>2 DEF ServerStarts
  <2>2. QED
    BY <1>1, <1>2, <2>1, LossKeeps DEF ServerStarts
<1>3. ASSUME NEW g \in Guides,
             CreateGuide(g) \/ UploadStarts(g) \/ UploadEnds(g) \/ DeleteGuide(g)
      PROVE  CommunityInv'
  BY <1>3, CreateKeeps, UploadKeeps, DeleteKeeps
<1>4. ASSUME NEW g \in Guides, NEW u \in Readers, Comment(g, u)
      PROVE  CommunityInv'
  BY <1>1, <1>4, LossKeeps DEF Comment
<1>5. ASSUME NEW g \in Guides, NEW u \in Readers, NEW kind \in Kinds, React(g, kind, u)
      PROVE  CommunityInv'
  BY <1>5, ReactKeeps
<1>6. ASSUME NEW r \in reviews, NEW v \in Decisions, Decide(r, v)
      PROVE  CommunityInv'
  BY <1>6, DecideKeeps
<1>7. CASE UNCHANGED communityVars
  BY <1>1, <1>7, LossKeeps DEF communityVars
<1>8. QED
  BY <1>2, <1>3, <1>4, <1>5, <1>6, <1>7 DEF CommunityNext

-----------------------------------------------------------------------------
(* Steps that change no verdict are not seen on the desk.                  *)
LEMMA DeskStays ==
  ASSUME TablesTyped, born' = born, SameVerdicts
  PROVE  places' = places
<1>1. DOMAIN guides' = DOMAIN guides
  BY DEF SameVerdicts
<1>2. \A g \in Guides : Place(g)' = Place(g)
  BY <1>1 DEF Place, Exists, SameVerdicts
<1>3. QED
  BY <1>2 DEF places

(* A step that concerns one guide moves that guide on the desk.            *)
LEMMA DeskMoves ==
  ASSUME NEW g \in Guides, \A h \in Guides \ {g} : Place(h)' = Place(h)
  PROVE  places' = [places EXCEPT ![g] = Place(g)'] /\ places[g] = Place(g)
<1> DEFINE now(h) == Place(h)
           later(h) == Place(h)'
<1>1. places = [h \in Guides |-> now(h)] /\ places' = [h \in Guides |-> later(h)]
  BY DEF places
<1>2. \A h \in Guides \ {g} : later(h) = now(h)
  OBVIOUS
<1> HIDE DEF now, later
<1>3. places' = [places EXCEPT ![g] = later(g)] /\ places[g] = now(g)
  BY <1>1, <1>2
<1>4. QED
  BY <1>3 DEF now, later

LEMMA InsertSubmits ==
  ASSUME TablesTyped, NEW g \in Guides, InsertGuide(g)
  PROVE  Desk!Submit(g)
<1>1. /\ born' = born \cup {g} /\ g \notin born /\ g \notin DOMAIN guides
      /\ DOMAIN guides' = DOMAIN guides \cup {g}
      /\ guides'[g].status = "pending"
      /\ \A h \in DOMAIN guides : guides'[h] = guides[h]
  BY InsertKeeps
<1>2. \A h \in Guides \ {g} : Place(h)' = Place(h)
  BY <1>1 DEF Place, Exists
<1>3. Place(g) = "new" /\ Place(g)' = "waiting"
  BY <1>1 DEF Place, Exists
<1>4. QED
  BY <1>2, <1>3, DeskMoves DEF Desk!Submit

LEMMA DeleteWithdraws ==
  ASSUME CommunityInv, NEW g \in Guides, DeleteGuide(g)
  PROVE  Desk!Withdraw(g) \/ places' = places
<1>1. /\ g \in DOMAIN guides /\ g \in born /\ born' = born
      /\ guides' = guides \/ guides' = [h \in DOMAIN guides \ {g} |-> guides[h]]
      /\ guides \in [DOMAIN guides -> GuideRow]
  BY DEF DeleteGuide, Restrict, Exists, CommunityInv, TablesTyped
<1>2. CASE guides' = guides
  BY <1>1, <1>2, DeskStays DEF SameVerdicts, CommunityInv
<1>3. CASE guides' = [h \in DOMAIN guides \ {g} |-> guides[h]]
  <2>1. \A h \in Guides \ {g} : Place(h)' = Place(h)
    BY <1>1, <1>3 DEF Place, Exists
  <2>2. Place(g)' = "withdrawn"
    BY <1>1, <1>3 DEF Place, Exists
  <2>3. Place(g) \in {"waiting"} \cup Desk!Verdicts
    BY <1>1 DEF Place, Exists, GuideRow, Decisions, Desk!Verdicts
  <2>4. QED
    BY <2>1, <2>2, <2>3, DeskMoves DEF Desk!Withdraw
<1>4. QED
  BY <1>1, <1>2, <1>3

LEMMA DecideDecides ==
  ASSUME CommunityInv, NEW r \in reviews, NEW v \in Decisions, Decide(r, v)
  PROVE  Desk!Decide(r.guide, v) \/ places' = places
<1>1. /\ r.status = "pending" /\ r.guide \in Guides /\ born' = born
      /\ \/ guides' = guides
         \/ /\ r.guide \in DOMAIN guides
            /\ guides' = [guides EXCEPT ![r.guide].status = v]
  BY DecideCommits DEF Exists
<1>2. CASE guides' = guides
  BY <1>1, <1>2, DeskStays DEF SameVerdicts, CommunityInv, TablesTyped
<1>3. CASE r.guide \in DOMAIN guides /\ guides' = [guides EXCEPT ![r.guide].status = v]
  <2>1. /\ guides' \in [DOMAIN guides -> GuideRow]
        /\ guides'[r.guide].status = v
        /\ \A h \in DOMAIN guides \ {r.guide} : guides'[h] = guides[h]
    BY <1>3, VerdictGiven DEF CommunityInv
  <2>2. \A h \in Guides \ {r.guide} : Place(h)' = Place(h)
    BY <1>1, <2>1 DEF Place, Exists
  <2>3. Place(r.guide) = "waiting" /\ Place(r.guide)' = v
    BY <1>1, <1>3, <2>1 DEF Place, Exists, CommunityInv, PendingWait, Decisions
  <2>4. QED
    BY <1>1, <2>2, <2>3, DeskMoves DEF Desk!Decide
<1>4. QED
  BY <1>1, <1>2, <1>3

LEMMA StepIsModerated ==
  CommunityInv /\ [CommunityNext]_communityVars => [Desk!Next]_places
<1> SUFFICES ASSUME CommunityInv, [CommunityNext]_communityVars
             PROVE  Desk!Next \/ places' = places
  OBVIOUS
<1>1. TablesTyped /\ guides \in [DOMAIN guides -> GuideRow]
  BY DEF CommunityInv, TablesTyped
<1>2. ASSUME guides' = guides, born' = born PROVE places' = places
  BY <1>1, <1>2, DeskStays DEF SameVerdicts
<1>3. CASE ServerStarts
  BY <1>2, <1>3 DEF ServerStarts
<1>4. ASSUME NEW g \in Guides, CreateGuide(g) \/ UploadStarts(g)
      PROVE  Desk!Next
  BY <1>1, <1>4, InsertSubmits DEF CreateGuide, UploadStarts, Desk!Next
<1>5. ASSUME NEW g \in Guides, UploadEnds(g)
      PROVE  places' = places
  BY <1>2, <1>5 DEF UploadEnds
<1>6. ASSUME NEW g \in Guides, DeleteGuide(g)
      PROVE  Desk!Next \/ places' = places
  BY <1>6, DeleteWithdraws DEF Desk!Next
<1>7. ASSUME NEW g \in Guides, NEW u \in Readers, Comment(g, u)
      PROVE  places' = places
  BY <1>2, <1>7 DEF Comment
<1>8. ASSUME NEW g \in Guides, NEW u \in Readers, NEW kind \in Kinds, React(g, kind, u)
      PROVE  places' = places
  <2>1. born' = born
    BY <1>8 DEF React
  <2>2. QED
    BY <1>1, <1>8, <2>1, ReactKeeps, DeskStays
<1>9. ASSUME NEW r \in reviews, NEW v \in Decisions, Decide(r, v)
      PROVE  Desk!Next \/ places' = places
  <2>1. r.guide \in Guides /\ v \in Desk!Verdicts
    BY <1>9, DecideCommits DEF Decisions, Desk!Verdicts
  <2>2. Desk!Decide(r.guide, v) \/ places' = places
    BY <1>9, DecideDecides
  <2>3. QED
    BY <2>1, <2>2 DEF Desk!Next
<1>10. CASE UNCHANGED communityVars
  BY <1>2, <1>10 DEF communityVars
<1>11. QED
  BY <1>3, <1>4, <1>5, <1>6, <1>7, <1>8, <1>9, <1>10 DEF CommunityNext

(* The guides are moderated as the desk promises, with any number of       *)
(* guides and readers, and whatever handlers break off.                    *)
THEOREM CommunityModerates == CommunitySpec => ModerationKept
<1>1. CommunityInit => Desk!Init
  BY DEF CommunityInit, Desk!Init, places, Place, Exists
<1>2. QED
  BY CommunityInitially, CommunityStep, StepIsModerated, <1>1, PTL
  DEF CommunitySpec, ModerationKept, Desk!Spec
-----------------------------------------------------------------------------
(* Among the reviews of a guide that has any there is a newest.            *)
LEMMA NewestReview ==
  ASSUME NEW rows \in SUBSET Review, rows # {}
  PROVE  \E r \in rows : \A s \in rows : s.id <= r.id
<1> DEFINE ids == {r.id : r \in rows}
<1>1. ids \in SUBSET (0 .. MaxReviews) /\ ids # {}
  BY BoundsAssumption DEF Review
<1>2. MaxReviews \in Nat
  BY BoundsAssumption
<1>3. PICK m \in ids : \A k \in ids : k <= m
  BY <1>1, <1>2, GreatestNumber
<1>4. PICK r \in rows : r.id = m
  BY <1>3
<1>5. QED
  BY <1>3, <1>4

-----------------------------------------------------------------------------
(* A mark is on a guide that was created; the counts of a guide are those  *)
(* of its marks unless a handler broke off.                                *)
MarksBorn == \A m \in marks : m[2] \in born

CountsInv == MarksBorn /\ CountsMatchRows

(* Unless a handler broke off, a guide that waits has one review, which    *)
(* waits, and one that was decided on has reviews that say so.             *)
ReviewsSettled ==
  \A g \in DOMAIN guides :
    g \notin uploading /\ <<g, "review">> \notin torn =>
      IF guides[g].status = "pending"
      THEN \E p : p.status = "pending" /\ ReviewsOf(g) = {p}
      ELSE /\ ReviewsOf(g) # {}
           /\ \A r \in ReviewsOf(g) : r.status = guides[g].status

-----------------------------------------------------------------------------
(* Marks on other guides do not count.                                     *)
LEMMA CountElsewhere ==
  ASSUME NEW g, NEW rows, NEW less, NEW kind,
         \A m : m[2] = g => (m \in rows <=> m \in less)
  PROVE  Count(rows, kind, g) = Count(less, kind, g)
<1>1. {m \in rows : m[1] = kind /\ m[2] = g} = {m \in less : m[1] = kind /\ m[2] = g}
  OBVIOUS
<1>2. QED
  BY <1>1 DEF Count

LEMMA CountOfNone ==
  ASSUME NEW g, NEW rows, NEW kind, \A m \in rows : m[2] # g
  PROVE  Count(rows, kind, g) = 0
<1>1. {m \in rows : m[1] = kind /\ m[2] = g} = {}
  OBVIOUS
<1>2. QED
  BY <1>1, FS_EmptySet DEF Count

(* What a recount writes. *)
LEMMA RecountWrites ==
  ASSUME TablesTyped, NEW g \in DOMAIN guides, NEW rows, IsFiniteSet(rows),
         guides' = Recounted(rows, g)
  PROVE  /\ DOMAIN guides' = DOMAIN guides
         /\ guides'[g].likes = Count(rows, "likes", g)
         /\ guides'[g].favorites = Count(rows, "favorites", g)
         /\ \A h \in DOMAIN guides \ {g} : guides'[h] = guides[h]
<1> DEFINE row == [guides[g] EXCEPT !.likes = Count(rows, "likes", g),
                                    !.favorites = Count(rows, "favorites", g)]
<1>1. Count(rows, "likes", g) \in Nat /\ Count(rows, "favorites", g) \in Nat
  BY CountIsNat
<1>2. guides[g] \in GuideRow
  BY DEF TablesTyped
<1>3. row.likes = Count(rows, "likes", g) /\ row.favorites = Count(rows, "favorites", g)
  BY <1>1, <1>2 DEF GuideRow
<1>4. guides' = [guides EXCEPT ![g] = row]
  BY Zenon DEF Recounted
<1> HIDE DEF row
<1>5. QED
  BY <1>3, <1>4 DEF TablesTyped

(* Steps that leave the marks as they are, and the counts of the guides    *)
(* that stay.                                                              *)
LEMMA CountsStay ==
  ASSUME CountsInv, marks' = marks, born \subseteq born', DOMAIN guides' \subseteq DOMAIN guides,
         \A h \in DOMAIN guides' : /\ guides'[h].likes = guides[h].likes
                                   /\ guides'[h].favorites = guides[h].favorites,
         \A h \in DOMAIN guides' : <<h, "counts">> \in torn => <<h, "counts">> \in torn'
  PROVE  CountsInv'
  BY DEF CountsInv, MarksBorn, CountsMatchRows

(* A handler that deals with reviews does not touch what is known of the   *)
(* counts, and the other way round.                                        *)
LEMMA CommitsParts ==
  ASSUME NEW n, NEW all, NEW parts, Commits(n, all, parts)
  PROVE  /\ \A x : x \notin parts => (x \in torn <=> x \in torn')
         /\ \A x \in parts : x \in torn' \/ n = all
  BY DEF Commits

LEMMA CountsStep ==
  ASSUME CommunityInv, CountsInv, [CommunityNext]_communityVars
  PROVE  CountsInv'
<1>0. /\ TablesTyped /\ guides \in [DOMAIN guides -> GuideRow] /\ IsFiniteSet(marks)
      /\ DOMAIN guides \subseteq born
  BY DEF CommunityInv, TablesTyped
<1>1. CASE ServerStarts
  <2>1. /\ guides' = guides /\ born' = born /\ marks' = marks
        /\ \A h : <<h, "counts">> \in torn => <<h, "counts">> \in torn'
    BY <1>1 DEF ServerStarts
  <2>2. QED
    BY <2>1, CountsStay
<1>2. ASSUME NEW g \in Guides, CreateGuide(g) \/ UploadStarts(g) PROVE CountsInv'
  <2>1. /\ InsertGuide(g) /\ marks' = marks
        /\ \A h : <<h, "counts">> \in torn => <<h, "counts">> \in torn'
    BY <1>2, CommitsParts DEF CreateGuide, UploadStarts
  <2>2. /\ born' = born \cup {g} /\ g \notin born
        /\ DOMAIN guides' = DOMAIN guides \cup {g}
        /\ \A h \in DOMAIN guides : guides'[h] = guides[h]
    BY <1>0, <2>1, InsertKeeps
  <2>3. guides'[g].likes = 0 /\ guides'[g].favorites = 0
    BY <2>1 DEF InsertGuide
  <2>4. Count(marks, "likes", g) = 0 /\ Count(marks, "favorites", g) = 0
    BY <2>2, CountOfNone DEF CountsInv, MarksBorn
  <2>5. QED
    BY <2>1, <2>2, <2>3, <2>4 DEF CountsInv, MarksBorn, CountsMatchRows
<1>3. ASSUME NEW g \in Guides, UploadEnds(g) PROVE CountsInv'
  <2>1. /\ guides' = guides /\ born' = born /\ marks' = marks
        /\ \A h : <<h, "counts">> \in torn => <<h, "counts">> \in torn'
    BY <1>3, CommitsParts DEF UploadEnds
  <2>2. QED
    BY <2>1, CountsStay
<1>4. ASSUME NEW g \in Guides, DeleteGuide(g) PROVE CountsInv'
  <2>1. PICK n \in 1 .. 5 :
          /\ marks' = {m \in marks : ~ \/ n >= 1 /\ m[1] = "likes" /\ m[2] = g
                                       \/ n >= 2 /\ m[1] = "favorites" /\ m[2] = g}
          /\ guides' = IF n = 5 THEN Restrict(guides, DOMAIN guides \ {g}) ELSE guides
          /\ Commits(n, 5, {g} \X {"counts", "review"})
    BY <1>4 DEF DeleteGuide
  <2>2. born' = born
    BY <1>4 DEF DeleteGuide
  <2>3. /\ marks' \subseteq marks
        /\ \A m : m[2] # g => (m \in marks <=> m \in marks')
    BY <2>1
  <2>4. \A h \in DOMAIN guides' : h \in DOMAIN guides /\ guides'[h] = guides[h]
    BY <2>1 DEF Restrict
  <2>5. g \in DOMAIN guides' => <<g, "counts">> \in torn'
    <3>1. n = 5 => g \notin DOMAIN guides'
      BY <2>1 DEF Restrict
    <3>2. <<g, "counts">> \in {g} \X {"counts", "review"}
      OBVIOUS
    <3>3. QED
      BY <2>1, <3>1, <3>2, CommitsParts
  <2>6. \A h : h # g => (<<h, "counts">> \in torn <=> <<h, "counts">> \in torn')
    <3>1. \A h : h # g => <<h, "counts">> \notin {g} \X {"counts", "review"}
      OBVIOUS
    <3>2. QED
      BY <2>1, <3>1, CommitsParts
  <2>7. ASSUME NEW h \in DOMAIN guides', <<h, "counts">> \notin torn'
        PROVE  /\ guides'[h].likes = Count(marks', "likes", h)
               /\ guides'[h].favorites = Count(marks', "favorites", h)
    <3>1. h # g /\ <<h, "counts">> \notin torn /\ h \in DOMAIN guides /\ guides'[h] = guides[h]
      BY <2>4, <2>5, <2>6, <2>7
    <3>2. \A m : m[2] = h => (m \in marks <=> m \in marks')
      BY <2>3, <3>1
    <3>3. /\ Count(marks, "likes", h) = Count(marks', "likes", h)
          /\ Count(marks, "favorites", h) = Count(marks', "favorites", h)
      BY <3>2, CountElsewhere
    <3>4. QED
      BY <3>1, <3>3 DEF CountsInv, CountsMatchRows
  <2>8. QED
    BY <2>2, <2>3, <2>7 DEF CountsInv, MarksBorn, CountsMatchRows
<1>5. ASSUME NEW g \in Guides, NEW u \in Readers, Comment(g, u) PROVE CountsInv'
  BY <1>5, CountsStay DEF Comment
<1>6. ASSUME NEW g \in Guides, NEW u \in Readers, NEW kind \in Kinds, React(g, kind, u)
      PROVE  CountsInv'
  <2>1. PICK n \in 1 .. 2, on \in BOOLEAN :
          /\ marks' = IF on THEN marks \cup {<<kind, g, u>>} ELSE marks \ {<<kind, g, u>>}
          /\ guides' = IF n = 2 THEN Recounted(marks', g) ELSE guides
          /\ Commits(n, 2, {<<g, "counts">>})
    BY <1>6 DEF React
  <2>2. born' = born /\ g \in DOMAIN guides /\ IsFiniteSet(marks')
    BY <1>6, <1>0, <2>1, FS_AddElement, FS_Subset DEF React, Exists
  <2>3. /\ \A m \in marks' : m \in marks \/ m[2] = g
        /\ \A m : m[2] # g => (m \in marks <=> m \in marks')
    BY <2>1
  <2>4. MarksBorn'
    BY <1>0, <2>2, <2>3 DEF CountsInv, MarksBorn
  <2>5. /\ DOMAIN guides' = DOMAIN guides
        /\ \A h \in DOMAIN guides \ {g} : guides'[h] = guides[h]
        /\ n = 2 => /\ guides'[g].likes = Count(marks', "likes", g)
                    /\ guides'[g].favorites = Count(marks', "favorites", g)
    BY <1>0, <2>1, <2>2, RecountWrites
  <2>6. n = 2 \/ <<g, "counts">> \in torn'
    BY <2>1, CommitsParts
  <2>7. \A h : h # g => (<<h, "counts">> \in torn <=> <<h, "counts">> \in torn')
    BY <2>1, CommitsParts
  <2>8. ASSUME NEW h \in DOMAIN guides', <<h, "counts">> \notin torn', h # g
        PROVE  /\ guides'[h].likes = Count(marks', "likes", h)
               /\ guides'[h].favorites = Count(marks', "favorites", h)
    <3>1. <<h, "counts">> \notin torn /\ h \in DOMAIN guides /\ guides'[h] = guides[h]
      BY <2>5, <2>7, <2>8
    <3>2. \A m : m[2] = h => (m \in marks <=> m \in marks')
      BY <2>3, <2>8
    <3>3. /\ Count(marks, "likes", h) = Count(marks', "likes", h)
          /\ Count(marks, "favorites", h) = Count(marks', "favorites", h)
      BY <3>2, CountElsewhere
    <3>4. QED
      BY <3>1, <3>3 DEF CountsInv, CountsMatchRows
  <2>9. CountsMatchRows'
    BY <2>5, <2>6, <2>8 DEF CountsMatchRows
  <2>10. QED
    BY <2>4, <2>9 DEF CountsInv
<1>7. ASSUME NEW r \in reviews, NEW v \in Decisions, Decide(r, v) PROVE CountsInv'
  <2>1. /\ marks' = marks /\ born' = born
        /\ \/ guides' = guides
           \/ r.guide \in DOMAIN guides /\ guides' = [guides EXCEPT ![r.guide].status = v]
    BY <1>7, DecideCommits DEF Exists
  <2>2. \A h : <<h, "counts">> \in torn => <<h, "counts">> \in torn'
    BY <1>7, CommitsParts DEF Decide
  <2>3. CASE r.guide \in DOMAIN guides /\ guides' = [guides EXCEPT ![r.guide].status = v]
    <3> DEFINE row == [guides[r.guide] EXCEPT !.status = v]
    <3>1. row.likes = guides[r.guide].likes /\ row.favorites = guides[r.guide].favorites
      BY <1>0, <2>3 DEF GuideRow
    <3>2. guides' = [guides EXCEPT ![r.guide] = row]
      BY <2>3, Zenon
    <3> HIDE DEF row
    <3>3. DOMAIN guides' = DOMAIN guides
          /\ \A h \in DOMAIN guides : /\ guides'[h].likes = guides[h].likes
                                      /\ guides'[h].favorites = guides[h].favorites
      BY <1>0, <3>1, <3>2
    <3>4. QED
      BY <2>1, <2>2, <3>3, CountsStay
  <2>4. CASE guides' = guides
    BY <2>1, <2>2, <2>4, CountsStay
  <2>5. QED
    BY <2>1, <2>3, <2>4
<1>8. CASE UNCHANGED communityVars
  BY <1>8, CountsStay DEF communityVars
<1>9. QED
  BY <1>1, <1>2, <1>3, <1>4, <1>5, <1>6, <1>7, <1>8 DEF CommunityNext

-----------------------------------------------------------------------------
(* A step that leaves a guide, its reviews and its upload as they are.     *)
SameReviews(g) ==
  /\ guides'[g].status = guides[g].status
  /\ ReviewsOf(g)' = ReviewsOf(g)
  /\ g \in uploading => g \in uploading'
  /\ <<g, "review">> \in torn => <<g, "review">> \in torn'

SettledAt(g) ==
  g \notin uploading /\ <<g, "review">> \notin torn =>
    IF guides[g].status = "pending"
    THEN \E p : p.status = "pending" /\ ReviewsOf(g) = {p}
    ELSE /\ ReviewsOf(g) # {}
         /\ \A r \in ReviewsOf(g) : r.status = guides[g].status

LEMMA SameReviewsSettled ==
  ASSUME NEW g, SettledAt(g), SameReviews(g)
  PROVE  SettledAt(g)'
  BY DEF SettledAt, SameReviews

(* Of a guide that had no review, create_review_if_missing makes one that  *)
(* waits; it touches no other.                                             *)
LEMMA ReviewIfMissingSettles ==
  ASSUME NEW g, ReviewIfMissing(g), ReviewsOf(g) = {}
  PROVE  /\ \E p : p.status = "pending" /\ ReviewsOf(g)' = {p}
         /\ \A h : h # g => ReviewsOf(h)' = ReviewsOf(h)
<1> DEFINE p == [id |-> written + 1, guide |-> g, status |-> "pending"]
<1>1. reviews' = reviews \cup {p}
  BY DEF ReviewIfMissing, WithReview
<1>2. p.guide = g /\ p.status = "pending"
  OBVIOUS
<1> HIDE DEF p
<1>3. ReviewsOf(g)' = {p}
  BY <1>1, <1>2 DEF ReviewsOf
<1>4. \A h : h # g => ReviewsOf(h)' = ReviewsOf(h)
  BY <1>1, <1>2 DEF ReviewsOf
<1>5. QED
  BY <1>2, <1>3, <1>4

(* A whole decision leaves nothing but its verdict.                        *)
LEMMA DecideSettles ==
  ASSUME CommunityInv, NEW r \in reviews, NEW v \in Decisions, Decide(r, v)
  PROVE  /\ \A h : h # r.guide => ReviewsOf(h)' = ReviewsOf(h)
         /\ r.guide \in DOMAIN guides =>
              \/ <<r.guide, "review">> \in torn'
              \/ /\ guides' = [guides EXCEPT ![r.guide].status = v]
                 /\ ReviewsOf(r.guide)' # {}
                 /\ \A s \in ReviewsOf(r.guide)' : s.status = v
<1> DEFINE g == r.guide
           decided == [r EXCEPT !.status = v]
           others == {s \in reviews : s.guide = r.guide /\ s # r}
           kept == (reviews \ {r}) \cup {decided}
           alone(n) == IF n >= 2 THEN kept \ others ELSE kept
           last == [id |-> written + 1, guide |-> g, status |-> v]
<1>1. PICK n \in 1 .. 4 :
        /\ guides' = IF n >= 3 /\ Exists(r.guide)
                     THEN [guides EXCEPT ![r.guide].status = v]
                     ELSE guides
        /\ IF n = 4 /\ Exists(r.guide)
           THEN reviews' = WithReview(alone(n), r.guide, v)
           ELSE reviews' = alone(n)
        /\ Commits(n, 4, {<<r.guide, "review">>})
  BY DEF Decide
<1>2. decided.guide = g /\ decided.status = v /\ last.guide = g /\ last.status = v
  BY DEF CommunityInv, TablesTyped, Review
<1>3. reviews' = alone(n) \cup {last} \/ reviews' = alone(n)
  BY <1>1 DEF WithReview
<1> HIDE DEF decided, last
<1>4. \A h : h # g => ReviewsOf(h)' = ReviewsOf(h)
  <2> SUFFICES ASSUME NEW h, h # g PROVE ReviewsOf(h)' = ReviewsOf(h)
    OBVIOUS
  <2>1. \A s : s.guide = h => (s \in alone(n) <=> s \in reviews)
    BY <1>2
  <2>2. \A s : s.guide = h => (s \in reviews' <=> s \in reviews)
    BY <1>2, <1>3, <2>1
  <2>3. QED
    BY <2>2 DEF ReviewsOf
<1>5. ASSUME g \in DOMAIN guides, <<g, "review">> \notin torn'
      PROVE  /\ guides' = [guides EXCEPT ![g].status = v]
             /\ ReviewsOf(g)' # {}
             /\ \A s \in ReviewsOf(g)' : s.status = v
  <2>1. n = 4
    BY <1>1, <1>5, CommitsParts
  <2>2. guides' = [guides EXCEPT ![g].status = v] /\ reviews' = alone(n) \cup {last}
    BY <1>1, <1>5, <2>1 DEF Exists, WithReview, last
  <2>3. alone(n) = kept \ others
    BY <2>1
  <2>4. \A s \in alone(n) : s.guide = g => s = decided
    BY <2>3
  <2>5. \A s \in ReviewsOf(g)' : s.status = v
    BY <1>2, <2>2, <2>4 DEF ReviewsOf
  <2>6. last \in ReviewsOf(g)'
    BY <1>2, <2>2 DEF ReviewsOf
  <2>7. QED
    BY <2>2, <2>5, <2>6
<1>6. QED
  BY <1>4, <1>5

LEMMA ReviewsStep ==
  ASSUME CommunityInv, ReviewsSettled, [CommunityNext]_communityVars
  PROVE  ReviewsSettled'
<1> SUFFICES ASSUME NEW g \in DOMAIN guides' PROVE SettledAt(g)'
  BY DEF ReviewsSettled, SettledAt
<1>0. /\ TablesTyped /\ guides \in [DOMAIN guides -> GuideRow] /\ DOMAIN guides \subseteq born
      /\ \A r \in reviews : r.guide \in born
      /\ \A h \in DOMAIN guides : SettledAt(h)
  BY DEF CommunityInv, TablesTyped, PendingWait, ReviewsSettled, SettledAt
<1>1. CASE ServerStarts
  <2>1. /\ guides' = guides /\ g \in DOMAIN guides /\ torn' = torn \cup (uploading \X {"review"})
        /\ \A s : s \in reviews' <=> s \in reviews /\ \A x \in ReviewsOf(s.guide) : x.id <= s.id
    BY <1>1 DEF ServerStarts
  <2> SUFFICES ASSUME <<g, "review">> \notin torn'
               PROVE  IF guides[g].status = "pending"
                      THEN \E p : p.status = "pending" /\ ReviewsOf(g)' = {p}
                      ELSE /\ ReviewsOf(g)' # {}
                           /\ \A r \in ReviewsOf(g)' : r.status = guides[g].status
    BY <2>1 DEF SettledAt
  <2>2. g \notin uploading /\ <<g, "review">> \notin torn
    BY <2>1
  <2>3. ReviewsOf(g) # {} /\ ReviewsOf(g) \in SUBSET Review
    BY <1>0, <2>1, <2>2 DEF SettledAt, ReviewsOf, TablesTyped
  <2>4. PICK newest \in ReviewsOf(g) : \A s \in ReviewsOf(g) : s.id <= newest.id
    BY <2>3, NewestReview
  <2>5. newest \in ReviewsOf(g)' /\ ReviewsOf(g)' \subseteq ReviewsOf(g)
    BY <2>1, <2>4 DEF ReviewsOf
  <2>6. QED
    BY <1>0, <2>1, <2>2, <2>5 DEF SettledAt
<1>2. ASSUME NEW h \in Guides, CreateGuide(h) PROVE SettledAt(g)'
  <2>1. PICK n \in 1 .. 2 :
          /\ InsertGuide(h)
          /\ IF n = 2 THEN ReviewIfMissing(h) ELSE UNCHANGED <<reviews, written>>
          /\ Commits(n, 2, {<<h, "review">>})
          /\ uploading' = uploading
    BY <1>2 DEF CreateGuide
  <2>2. /\ h \notin born /\ DOMAIN guides' = DOMAIN guides \cup {h}
        /\ guides'[h].status = "pending" /\ \A x \in DOMAIN guides : guides'[x] = guides[x]
    BY <1>0, <2>1, InsertKeeps
  <2>3. ReviewsOf(h) = {}
    BY <1>0, <2>2 DEF ReviewsOf
  <2>4. CASE g = h
    BY <2>1, <2>2, <2>3, <2>4, ReviewIfMissingSettles, CommitsParts DEF SettledAt
  <2>5. CASE g # h
    <3>1. g \in DOMAIN guides /\ guides'[g] = guides[g]
      BY <2>2, <2>5
    <3>2. ReviewsOf(g)' = ReviewsOf(g)
      BY <2>1, <2>3, <2>5, ReviewIfMissingSettles DEF ReviewsOf
    <3>3. <<g, "review">> \in torn => <<g, "review">> \in torn'
      BY <2>1, <2>5, CommitsParts
    <3>4. QED
      BY <1>0, <2>1, <3>1, <3>2, <3>3, SameReviewsSettled DEF SameReviews
  <2>6. QED
    BY <2>4, <2>5
<1>3. ASSUME NEW h \in Guides, UploadStarts(h) PROVE SettledAt(g)'
  <2>1. /\ InsertGuide(h) /\ uploading' = uploading \cup {h}
        /\ reviews' = reviews /\ torn' = torn
    BY <1>3 DEF UploadStarts
  <2>2. /\ DOMAIN guides' = DOMAIN guides \cup {h}
        /\ \A x \in DOMAIN guides : guides'[x] = guides[x]
    BY <1>0, <2>1, InsertKeeps
  <2>3. CASE g = h
    BY <2>1, <2>3 DEF SettledAt
  <2>4. CASE g # h
    BY <1>0, <2>1, <2>2, <2>4, SameReviewsSettled DEF SameReviews, ReviewsOf
  <2>5. QED
    BY <2>3, <2>4
<1>4. ASSUME NEW h \in Guides, UploadEnds(h) PROVE SettledAt(g)'
  <2>1. PICK n \in 0 .. 1 :
          /\ h \in uploading /\ uploading' = uploading \ {h} /\ guides' = guides
          /\ IF n = 1 THEN ReviewIfMissing(h) ELSE UNCHANGED <<reviews, written>>
          /\ Commits(n, 1, {<<h, "review">>})
    BY <1>4 DEF UploadEnds
  <2>2. ReviewsOf(h) = {} /\ (h \in DOMAIN guides => guides[h].status = "pending")
    BY <2>1 DEF CommunityInv, UploadsWait, Exists
  <2>3. CASE g = h
    BY <2>1, <2>2, <2>3, ReviewIfMissingSettles, CommitsParts DEF SettledAt
  <2>4. CASE g # h
    <3>1. ReviewsOf(g)' = ReviewsOf(g)
      BY <2>1, <2>2, <2>4, ReviewIfMissingSettles DEF ReviewsOf
    <3>2. <<g, "review">> \in torn => <<g, "review">> \in torn'
      BY <2>1, <2>4, CommitsParts
    <3>3. QED
      BY <1>0, <2>1, <2>4, <3>1, <3>2, SameReviewsSettled DEF SameReviews
  <2>5. QED
    BY <2>3, <2>4
<1>5. ASSUME NEW h \in Guides, DeleteGuide(h) PROVE SettledAt(g)'
  <2>1. PICK n \in 1 .. 5 :
          /\ reviews' = {r \in reviews : n < 4 \/ r.guide # h}
          /\ guides' = IF n = 5 THEN Restrict(guides, DOMAIN guides \ {h}) ELSE guides
          /\ Commits(n, 5, {h} \X {"counts", "review"})
          /\ uploading' = uploading
    BY <1>5 DEF DeleteGuide
  <2>2. g \in DOMAIN guides /\ guides'[g] = guides[g]
    BY <2>1 DEF Restrict
  <2>3. CASE g = h
    <3>1. n # 5
      BY <2>1, <2>3 DEF Restrict
    <3>2. <<h, "review">> \in {h} \X {"counts", "review"}
      OBVIOUS
    <3>3. <<h, "review">> \in torn'
      BY <2>1, <3>1, <3>2, CommitsParts
    <3>4. QED
      BY <2>3, <3>3 DEF SettledAt
  <2>4. CASE g # h
    <3>1. ReviewsOf(g)' = ReviewsOf(g)
      BY <2>1, <2>4 DEF ReviewsOf
    <3>2. <<g, "review">> \notin {h} \X {"counts", "review"}
      BY <2>4
    <3>3. <<g, "review">> \in torn => <<g, "review">> \in torn'
      BY <2>1, <3>2, CommitsParts
    <3>4. QED
      BY <1>0, <2>1, <2>2, <3>1, <3>3, SameReviewsSettled DEF SameReviews
  <2>5. QED
    BY <2>3, <2>4
<1>6. ASSUME NEW h \in Guides, NEW u \in Readers, Comment(h, u) PROVE SettledAt(g)'
  BY <1>0, <1>6, SameReviewsSettled DEF Comment, SameReviews, ReviewsOf
<1>7. ASSUME NEW h \in Guides, NEW u \in Readers, NEW kind \in Kinds, React(h, kind, u)
      PROVE  SettledAt(g)'
  <2>1. reviews' = reviews /\ uploading' = uploading /\ SameVerdicts
    BY <1>7, ReactKeeps DEF React
  <2>2. <<g, "review">> \in torn => <<g, "review">> \in torn'
    BY <1>7, CommitsParts DEF React
  <2>3. g \in DOMAIN guides /\ guides'[g].status = guides[g].status
    BY <2>1 DEF SameVerdicts
  <2>4. QED
    BY <1>0, <2>1, <2>2, <2>3, SameReviewsSettled DEF SameReviews, ReviewsOf
<1>8. ASSUME NEW r \in reviews, NEW v \in Decisions, Decide(r, v) PROVE SettledAt(g)'
  <2>1. /\ uploading' = uploading /\ r.status = "pending" /\ r.guide \notin uploading
        /\ \/ guides' = guides
           \/ r.guide \in DOMAIN guides /\ guides' = [guides EXCEPT ![r.guide].status = v]
    BY <1>8, DecideCommits DEF Exists
  <2>2. /\ g \in DOMAIN guides
        /\ g # r.guide => guides'[g] = guides[g]
    BY <1>0, <2>1
  <2>3. CASE g = r.guide
    <3>1. \/ <<g, "review">> \in torn'
          \/ /\ guides' = [guides EXCEPT ![g].status = v]
             /\ ReviewsOf(g)' # {}
             /\ \A s \in ReviewsOf(g)' : s.status = v
      BY <1>8, <2>2, <2>3, DecideSettles
    <3>2. guides' = [guides EXCEPT ![g].status = v] => guides'[g].status = v
      BY <1>0, <2>2, VerdictGiven
    <3>3. v # "pending"
      BY DEF Decisions
    <3>4. QED
      BY <3>1, <3>2, <3>3 DEF SettledAt
  <2>4. CASE g # r.guide
    <3>1. ReviewsOf(g)' = ReviewsOf(g)
      BY <1>8, <2>4, DecideSettles
    <3>2. <<g, "review">> \in torn => <<g, "review">> \in torn'
      BY <1>8, <2>4, CommitsParts DEF Decide
    <3>3. QED
      BY <1>0, <2>1, <2>2, <2>4, <3>1, <3>2, SameReviewsSettled DEF SameReviews
  <2>5. QED
    BY <2>3, <2>4
<1>9. CASE UNCHANGED communityVars
  BY <1>0, <1>9, SameReviewsSettled DEF communityVars, SameReviews, ReviewsOf
<1>10. QED
  BY <1>1, <1>2, <1>3, <1>4, <1>5, <1>6, <1>7, <1>8, <1>9 DEF CommunityNext

(* The row of the queue is the one that waits.                             *)
LEMMA QueueShowsPending ==
  ASSUME TablesTyped, NEW g, NEW p, p.status = "pending", ReviewsOf(g) = {p}
  PROVE  {r \in ReviewsOf(g) : r.status = "pending"} = {QueueRow(g)}
<1> DEFINE pending == {r \in ReviewsOf(g) : r.status = "pending"}
<1>1. pending = {p}
  OBVIOUS
<1>2. p.id \in Nat
  <2>1. p \in Review
    BY DEF ReviewsOf, TablesTyped
  <2>2. QED
    BY <2>1, BoundsAssumption DEF Review
<1>3. QueueRow(g) = CHOOSE r \in {p} : \A s \in {p} : s.id <= r.id
  BY <1>1, Zenon DEF QueueRow
<1>4. \E r \in {p} : \A s \in {p} : s.id <= r.id
  BY <1>2
<1>5. QueueRow(g) = p
  BY <1>3, <1>4
<1>6. QED
  BY <1>1, <1>5

(* Unless a handler broke off, the counts by which guides are ranked are    *)
(* those of the marks, for any readers.                                     *)
THEOREM CountsAreTrue == CommunitySpec => []CountsMatchRows
<1>1. CommunityInit => CountsInv
  BY DEF CommunityInit, CountsInv, MarksBorn, CountsMatchRows
<1>2. CountsInv => CountsMatchRows
  BY DEF CountsInv
<1>3. QED
  BY CommunityInitially, CommunityStep, CountsStep, <1>1, <1>2, PTL DEF CommunitySpec

(* Unless a handler broke off, a guide that waits can be decided on, and a  *)
(* verdict is the only thing its reviews say.                               *)
THEOREM ReviewsAreTrue == CommunitySpec => []ReviewsFollowGuides
<1>1. CommunityInit => ReviewsSettled
  BY DEF CommunityInit, ReviewsSettled
<1>2. CommunityInv /\ ReviewsSettled => ReviewsFollowGuides
  <2> SUFFICES ASSUME CommunityInv, ReviewsSettled, NEW g \in DOMAIN guides,
                      g \notin uploading, <<g, "review">> \notin torn
               PROVE  /\ ReviewsOf(g) # {}
                      /\ IF guides[g].status = "pending"
                         THEN {r \in ReviewsOf(g) : r.status = "pending"} = {QueueRow(g)}
                         ELSE \A r \in ReviewsOf(g) : r.status = guides[g].status
    BY DEF ReviewsFollowGuides
  <2>1. TablesTyped
    BY DEF CommunityInv
  <2>2. CASE guides[g].status = "pending"
    <3>1. PICK p : p.status = "pending" /\ ReviewsOf(g) = {p}
      BY <2>2 DEF ReviewsSettled
    <3>2. {r \in ReviewsOf(g) : r.status = "pending"} = {QueueRow(g)}
      BY <2>1, <3>1, QueueShowsPending
    <3>3. QED
      BY <2>2, <3>1, <3>2
  <2>3. CASE guides[g].status # "pending"
    BY <2>3 DEF ReviewsSettled
  <2>4. QED
    BY <2>2, <2>3
<1>3. QED
  BY CommunityInitially, CommunityStep, ReviewsStep, <1>1, <1>2, PTL DEF CommunitySpec

-----------------------------------------------------------------------------
(* The pages.                                                              *)

(* The rows from a + 1 to b carry on where the first a rows end.           *)
CarriesOn(X, s, a, b) ==
  LET t == SubSeq(s, a + 1, Min({b, Len(s)}))
      c == Min({a, Len(s)})
  IN /\ t \in Seq(X) /\ c \in Nat
     /\ c + Len(t) = Min({b, Len(s)})
     /\ \A j \in 1 .. Len(t) : t[j] = s[c + j]

(* They do, when a is no more than b.                                      *)
LEMMA RowsBetween ==
  ASSUME NEW X, NEW s \in Seq(X), NEW a \in Nat, NEW b \in Nat, a <= b
  PROVE  CarriesOn(X, s, a, b)
<1> DEFINE l == Len(s)
           c == IF a <= l THEN a ELSE l
           d == IF b <= l THEN b ELSE l
           t == SubSeq(s, a + 1, d)
<1>1. l \in Nat /\ Min({a, l}) = c /\ Min({b, l}) = d
  BY LesserOfTwo
<1>2. c \in 0 .. l /\ d \in c .. l
  BY <1>1
<1>3. CASE a <= l
  <2>1. c = a /\ a + 1 \in Nat
    BY <1>3
  <2> HIDE DEF d, c
  <2>2. t \in Seq(X) /\ Len(t) = d - a /\ \A j \in 1 .. Len(t) : t[j] = s[a + j]
    BY <1>1, <1>2, <2>1
  <2> HIDE DEF t
  <2>3. t \in Seq(X) /\ c \in Nat /\ c + Len(t) = d /\ \A j \in 1 .. Len(t) : t[j] = s[c + j]
    BY <1>1, <1>2, <2>1, <2>2
  <2>4. QED
    BY <1>1, <2>3 DEF t, CarriesOn
<1>4. CASE a > l
  <2>1. c = l /\ d = l /\ d < a + 1
    BY <1>1, <1>4
  <2>2. t = << >>
    BY <1>1, <2>1, SubSeqEmpty
  <2>3. << >> \in Seq(X) /\ Len(<< >>) = 0 /\ 1 .. 0 = {}
    OBVIOUS
  <2> HIDE DEF d, c, t
  <2>4. t \in Seq(X) /\ c \in Nat /\ c + Len(t) = d /\ \A j \in 1 .. Len(t) : t[j] = s[c + j]
    BY <1>1, <1>2, <2>1, <2>2, <2>3
  <2>5. QED
    BY <1>1, <2>4 DEF t, CarriesOn
<1>5. a <= l \/ a > l
  BY <1>1
<1>6. QED
  BY <1>3, <1>4, <1>5

(* Where the rows of two lists are, one after the other.                    *)
LEMMA RowsOfBoth ==
  ASSUME NEW X, NEW r \in Seq(X), NEW t \in Seq(X)
  PROVE  /\ r \o t \in Seq(X) /\ Len(r \o t) = Len(r) + Len(t) /\ Len(t) \in Nat
         /\ \A i \in 1 .. Len(r) + Len(t) :
              (r \o t)[i] = IF i <= Len(r) THEN r[i] ELSE t[i - Len(r)]
  OBVIOUS

(* The rows of shown are l, each at a place where one of the lists has it. *)
ShowsInPlace(shown, X, reading, pages, l) ==
  /\ shown \in Seq(X)
  /\ Len(shown) = l
  /\ \A i \in 1 .. l : \E p \in 1 .. pages : shown[i] = reading[p][i]

(* Pages cut from lists of one length show that many rows, each at a place *)
(* where one of the lists has it.                                          *)
LEMMA PagesRead ==
  ASSUME NEW X, NEW n \in Nat, NEW size \in Nat \ {0}, NEW pages \in Nat, NEW reading,
         \A p \in 1 .. pages : reading[p] \in Seq(X) /\ Len(reading[p]) = n
  PROVE  ShowsInPlace(AllPages(reading, size, pages), X, reading, pages, Min({pages * size, n}))
<1> DEFINE page(p) == PageOfRows(reading[p], p, size)
           F(f) == [p \in 0 .. pages |-> IF p = 0 THEN << >> ELSE f[p - 1] \o page(p)]
           upTo == CHOOSE f : f = F(f)
           end(p) == Min({p * size, n})
           Z == Seq(X)
           x0 == << >>
           G == [q \in (1 .. pages) \X Z |-> q[2] \o page(q[1])]
<1>1. AllPages(reading, size, pages) = upTo[pages]
  BY DEF AllPages
<1>2. ASSUME NEW p \in 1 .. pages
      PROVE  /\ page(p) \in Z /\ end(p - 1) \in Nat
             /\ end(p - 1) + Len(page(p)) = end(p)
             /\ \A j \in 1 .. Len(page(p)) : page(p)[j] = reading[p][end(p - 1) + j]
  <2> DEFINE a == (p - 1) * size
             b == p * size
             s == reading[p]
  <2>1. a \in Nat /\ b \in Nat /\ a + size = b
    OBVIOUS
  <2>2. s \in Seq(X) /\ Len(s) = n
    OBVIOUS
  <2> HIDE DEF a, b, s
  <2>3. a <= b
    BY <2>1
  <2> DEFINE t == SubSeq(s, a + 1, Min({b, Len(s)}))
             c == Min({a, Len(s)})
  <2>rows. CarriesOn(X, s, a, b)
    BY <2>1, <2>2, <2>3, RowsBetween
  <2>4. /\ t \in Seq(X) /\ c \in Nat /\ c + Len(t) = Min({b, Len(s)})
        /\ \A j \in 1 .. Len(t) : t[j] = s[c + j]
    BY <2>rows DEF CarriesOn
  <2>5. page(p) = t /\ end(p - 1) = c /\ end(p) = Min({b, Len(s)})
    BY <2>2 DEF PageOfRows, a, b, s
  <2> HIDE DEF t, c, page, end
  <2>6. QED
    BY <2>4, <2>5 DEF s
<1>3. end(0) = 0
  <2>1. 0 * size = 0 /\ n \in Nat
    OBVIOUS
  <2>2. Min({0, n}) = 0
    BY <2>1, LesserOfTwo
  <2>3. QED
    BY <2>1, <2>2
<1> HIDE DEF page, end
<1>4. G \in StepFunctions(pages, Z) /\ x0 \in Z
  <2>1. \A q \in (1 .. pages) \X Z : q[2] \o page(q[1]) \in Z
    <3> SUFFICES ASSUME NEW q \in (1 .. pages) \X Z PROVE q[2] \o page(q[1]) \in Z
      OBVIOUS
    <3>1. q[2] \in Seq(X) /\ page(q[1]) \in Seq(X)
      BY <1>2
    <3>2. QED
      BY <3>1
  <2> HIDE DEF Z
  <2>2. QED
    BY <2>1 DEF StepFunctions, Z
<1>5. \A p \in 1 .. pages : \A x \in Z : G[<<p, x>>] = x \o page(p)
  OBVIOUS
<1> HIDE DEF G, Z, x0
<1>6. PICK g \in [0 .. pages -> Z] : Follows(g, pages, x0, G)
  BY <1>4, Recursion
<1>7. g = F(g)
  <2>1. \A p \in 0 .. pages : p = 0 \/ (p \in 1 .. pages /\ p - 1 \in 0 .. pages)
    OBVIOUS
  <2>2. \A p \in 1 .. pages : g[p] = g[p - 1] \o page(p)
    <3> SUFFICES ASSUME NEW p \in 1 .. pages PROVE g[p] = g[p - 1] \o page(p)
      OBVIOUS
    <3>1. g[p - 1] \in Z
      BY <1>6, <2>1
    <3>2. G[<<p, g[p - 1]>>] = g[p - 1] \o page(p)
      BY <1>5, <3>1
    <3>3. g[p] = G[<<p, g[p - 1]>>]
      BY <1>6 DEF Follows
    <3>4. QED
      BY <3>2, <3>3
  <2>3. g[0] = << >>
    BY <1>6 DEF Follows, x0
  <2>4. \A p \in 0 .. pages : g[p] = F(g)[p]
    BY <2>1, <2>2, <2>3
  <2>5. QED
    BY <1>6, <2>4
<1>8. upTo = F(upTo)
  BY <1>7
<1> HIDE DEF upTo
<1>9. upTo[0] = << >>
  BY <1>8
<1>10. ASSUME NEW p \in 1 .. pages PROVE upTo[p] = upTo[p - 1] \o page(p)
  <2>1. p \in 0 .. pages /\ p # 0
    OBVIOUS
  <2>2. F(upTo)[p] = upTo[p - 1] \o page(p)
    BY <2>1
  <2>3. QED
    BY <1>8, <2>2
<1> DEFINE Rows(s, p) == /\ s \in Seq(X)
                         /\ Len(s) = end(p)
                         /\ \A i \in 1 .. Len(s) : \E q \in 1 .. pages : s[i] = reading[q][i]
           Good == {p \in 0 .. pages : Rows(upTo[p], p)}
<1>11. 0 \in Good
  <2>1. << >> \in Seq(X) /\ Len(<< >>) = 0 /\ 1 .. 0 = {} /\ 0 \in 0 .. pages
    OBVIOUS
  <2>2. QED
    BY <1>3, <1>9, <2>1
<1>12. ASSUME NEW p \in 1 .. pages, p - 1 \in Good PROVE p \in Good
  <2> DEFINE r == upTo[p - 1]
             t == page(p)
             s == r \o t
             c == end(p - 1)
             l == Len(t)
  <2>1. Rows(r, p - 1)
    BY <1>12
  <2>2. /\ t \in Seq(X) /\ c \in Nat /\ c + l = end(p)
        /\ \A j \in 1 .. l : t[j] = reading[p][c + j]
    BY <1>2 DEF Z
  <2>3. upTo[p] = s
    BY <1>10
  <2>4. /\ r \in Seq(X) /\ Len(r) = c
        /\ \A i \in 1 .. c : \E q \in 1 .. pages : r[i] = reading[q][i]
    BY <2>1
  <2> HIDE DEF r, t, c, Rows
  <2>5. /\ s \in Seq(X) /\ Len(s) = c + l /\ l \in Nat
        /\ \A i \in 1 .. c + l : s[i] = IF i <= c THEN r[i] ELSE t[i - c]
    <3>1. r \in Seq(X) /\ t \in Seq(X) /\ Len(r) = c
      BY <2>2, <2>4
    <3>2. QED
      BY <3>1, RowsOfBoth
  <2> HIDE DEF s, l
  <2>6. ASSUME NEW i \in 1 .. c + l PROVE \E q \in 1 .. pages : s[i] = reading[q][i]
    <3>1. CASE i <= c
      <4>1. i \in 1 .. c /\ s[i] = r[i]
        BY <2>2, <2>5, <3>1
      <4>2. QED
        BY <2>4, <4>1
    <3>2. CASE ~ (i <= c)
      <4>1. i - c \in 1 .. l /\ c + (i - c) = i
        BY <2>2, <2>5, <3>2
      <4>2. s[i] = reading[p][i]
        BY <2>2, <2>5, <3>2, <4>1
      <4>3. QED
        BY <4>2
    <3>3. QED
      BY <3>1, <3>2
  <2>7. Rows(s, p)
    BY <2>2, <2>5, <2>6 DEF Rows
  <2>8. p \in 0 .. pages
    OBVIOUS
  <2>9. QED
    BY <2>3, <2>7, <2>8
<1> HIDE DEF Good
<1>13. pages \in Good
  <2>1. \A p \in 1 .. pages : p - 1 \in Good => p \in Good
    BY <1>12
  <2>2. \A p \in 0 .. pages : p \in Good
    BY <1>11, <2>1, Induction
  <2>3. QED
    BY <2>2
<1>14. QED
  BY <1>1, <1>13 DEF Good, end, ShowsInPlace

(* There are enough pages for all rows, and there is one.                  *)
LEMMA PagesSuffice ==
  ASSUME NEW l \in Nat, NEW size \in Nat \ {0}
  PROVE  LET n == PageCount(l, size)
         IN n \in Nat /\ 1 \in 1 .. n /\ Min({n * size, l}) = l
<1> DEFINE n == PageCount(l, size)
<1>1. n \in Nat /\ n >= 1 /\ l <= n * size /\ n * size \in Nat
  <2>1. CASE l = 0
    BY <2>1 DEF PageCount
  <2>2. CASE l # 0
    <3>1. n = (l + size - 1) \div size
      BY <2>2 DEF PageCount
    <3> HIDE DEF n
    <3>2. (l + size - 1) \div size \in Nat /\ l <= ((l + size - 1) \div size) * size
      OBVIOUS
    <3>3. n \in Nat /\ l <= n * size /\ n * size \in Nat
      BY <3>1, <3>2
    <3>4. n # 0
      BY <2>2, <3>3
    <3>5. QED
      BY <3>3, <3>4
  <2>3. QED
    BY <2>1, <2>2
<1> HIDE DEF n
<1>2. Min({n * size, l}) = l
  BY <1>1, LesserOfTwo
<1>3. QED
  BY <1>1, <1>2 DEF n

(* No mark outlives its guide.                                             *)
MarksLive ==
  /\ marks \subseteq Kinds \X Guides \X Readers
  /\ \A m \in marks : Exists(m[2])

LEMMA MarksLiveStep == CommunityInv /\ MarksLive /\ [CommunityNext]_communityVars => MarksLive'
<1> SUFFICES ASSUME CommunityInv, MarksLive, [CommunityNext]_communityVars PROVE MarksLive'
  OBVIOUS
<1>1. ASSUME NEW g \in Guides, InsertGuide(g), marks' = marks PROVE MarksLive'
  <2>1. DOMAIN guides \subseteq DOMAIN guides'
    BY <1>1 DEF InsertGuide
  <2>2. QED
    BY <1>1, <2>1 DEF MarksLive, Exists
<1>2. CASE born' = born /\ marks' = marks /\ DOMAIN guides' = DOMAIN guides
  BY <1>2 DEF MarksLive, Exists
<1>3. ASSUME NEW g \in Guides, DeleteGuide(g) PROVE MarksLive'
  <2>1. PICK n \in 1 .. 5 :
          /\ marks' = {m \in marks : ~ \/ n >= 1 /\ m[1] = "likes" /\ m[2] = g
                                       \/ n >= 2 /\ m[1] = "favorites" /\ m[2] = g}
          /\ guides' = IF n = 5 THEN Restrict(guides, DOMAIN guides \ {g}) ELSE guides
          /\ born' = born
    BY <1>3 DEF DeleteGuide
  <2>2. marks' \subseteq marks /\ \A m \in marks : m[1] \in {"likes", "favorites"}
    BY <2>1 DEF MarksLive, Kinds
  <2>3. \A m \in marks' : n = 5 => m[2] # g
    BY <2>1, <2>2
  <2>4. \A m \in marks' : m[2] \in DOMAIN guides'
    BY <2>1, <2>2, <2>3 DEF Restrict, MarksLive, Exists
  <2>5. QED
    BY <2>1, <2>2, <2>4 DEF MarksLive, Exists
<1>4. ASSUME NEW g \in Guides, NEW kind \in Kinds, NEW u \in Readers, React(g, kind, u)
      PROVE  MarksLive'
  <2>1. /\ Exists(g) /\ born' = born
        /\ marks' \subseteq marks \cup {<<kind, g, u>>}
        /\ DOMAIN guides' = DOMAIN guides
    BY <1>4 DEF React, Recounted
  <2>2. <<kind, g, u>> \in Kinds \X Guides \X Readers /\ <<kind, g, u>>[2] = g
    OBVIOUS
  <2>3. QED
    BY <2>1, <2>2 DEF MarksLive, Exists
<1>5. ASSUME NEW r \in reviews, NEW v \in Decisions, Decide(r, v) PROVE MarksLive'
  <2>1. born' = born /\ marks' = marks /\ DOMAIN guides' = DOMAIN guides
    BY <1>5 DEF Decide
  <2>2. QED
    BY <1>2, <2>1
<1>6. QED
  BY <1>1, <1>2, <1>3, <1>4, <1>5
  DEF CommunityNext, ServerStarts, CreateGuide, UploadStarts, UploadEnds, Comment, communityVars

(* What else the tables can hold.                                          *)
OthersTyped ==
  /\ comments \subseteq Guides \X Readers
  /\ uploading \subseteq Guides
  /\ breaks \in 0 .. MaxBreaks
  /\ torn \subseteq Guides \X {"counts", "review"}

LEMMA CommitsTyped ==
  ASSUME OthersTyped, NEW n, NEW all, NEW parts \in SUBSET (Guides \X {"counts", "review"}),
         Commits(n, all, parts)
  PROVE  breaks' \in 0 .. MaxBreaks /\ torn' \subseteq Guides \X {"counts", "review"}
  BY BoundsAssumption DEF OthersTyped, Commits

LEMMA OthersTypedStep ==
  CommunityInv /\ OthersTyped /\ [CommunityNext]_communityVars => OthersTyped'
<1> SUFFICES ASSUME CommunityInv, OthersTyped, [CommunityNext]_communityVars
             PROVE  OthersTyped'
  OBVIOUS
<1>1. \A g \in Guides : /\ {<<g, "review">>} \subseteq Guides \X {"counts", "review"}
                        /\ {<<g, "counts">>} \subseteq Guides \X {"counts", "review"}
                        /\ {g} \X {"counts", "review"} \subseteq Guides \X {"counts", "review"}
  OBVIOUS
<1>2. ASSUME NEW g \in Guides, CreateGuide(g) \/ UploadStarts(g) \/ UploadEnds(g)
      PROVE  OthersTyped'
  <2>1. CASE UploadStarts(g)
    BY <2>1 DEF UploadStarts, OthersTyped
  <2>2. CASE CreateGuide(g) \/ UploadEnds(g)
    <3>1. /\ breaks' \in 0 .. MaxBreaks /\ torn' \subseteq Guides \X {"counts", "review"}
          /\ uploading' \subseteq uploading /\ comments' = comments
      BY <1>1, <2>2, CommitsTyped DEF CreateGuide, UploadEnds
    <3>2. QED
      BY <3>1 DEF OthersTyped
  <2>3. QED
    BY <1>2, <2>1, <2>2
<1>3. ASSUME NEW g \in Guides, DeleteGuide(g) PROVE OthersTyped'
  <2>1. /\ breaks' \in 0 .. MaxBreaks /\ torn' \subseteq Guides \X {"counts", "review"}
        /\ uploading' = uploading /\ comments' \subseteq comments
    BY <1>1, <1>3, CommitsTyped DEF DeleteGuide
  <2>2. QED
    BY <2>1 DEF OthersTyped
<1>4. ASSUME NEW g \in Guides, NEW u \in Readers, Comment(g, u) PROVE OthersTyped'
  BY <1>4 DEF Comment, OthersTyped
<1>5. ASSUME NEW g \in Guides, NEW kind \in Kinds, NEW u \in Readers, React(g, kind, u)
      PROVE  OthersTyped'
  BY <1>1, <1>5, CommitsTyped DEF React, OthersTyped
<1>6. ASSUME NEW r \in reviews, NEW v \in Decisions, Decide(r, v) PROVE OthersTyped'
  <2>1. r.guide \in Guides
    BY DEF CommunityInv, TablesTyped, Review
  <2>2. PICK n \in 1 .. 4 : /\ Commits(n, 4, {<<r.guide, "review">>})
                            /\ UNCHANGED <<comments, uploading>>
    BY <1>6 DEF Decide
  <2>3. QED
    BY <1>1, <2>1, <2>2, CommitsTyped DEF OthersTyped
<1>7. CASE ServerStarts
  BY <1>7 DEF ServerStarts, OthersTyped
<1>8. CASE UNCHANGED communityVars
  BY <1>8 DEF communityVars, OthersTyped
<1>9. QED
  BY <1>2, <1>3, <1>4, <1>5, <1>6, <1>7, <1>8 DEF CommunityNext

(* The tables hold only what they can hold: a guide is created once, and   *)
(* every mark, comment and review is of a guide.                           *)
THEOREM CommunityTypeCorrect == CommunitySpec => []CommunityTypeOK
<1>1. CommunityInv /\ MarksLive /\ OthersTyped => CommunityTypeOK
  <2> SUFFICES ASSUME CommunityInv, MarksLive, OthersTyped PROVE CommunityTypeOK
    OBVIOUS
  <2>1. DOMAIN guides \subseteq born /\ born \subseteq Guides
    BY DEF CommunityInv, TablesTyped
  <2>2. \A g \in DOMAIN guides : guides[g] \in GuideRow
    BY DEF CommunityInv, TablesTyped
  <2>3. QED
    BY <2>1, <2>2
    DEF CommunityInv, TablesTyped, MarksLive, OthersTyped, CommunityTypeOK
<1>2. CommunityInit => MarksLive /\ OthersTyped
  BY BoundsAssumption DEF CommunityInit, MarksLive, OthersTyped
<1>3. QED
  BY <1>1, <1>2, CommunityInitially, CommunityStep, MarksLiveStep, OthersTypedStep, PTL
  DEF CommunitySpec

-----------------------------------------------------------------------------
(* The orders in which a query may find what is marked.                    *)

(* An order has every element at one place.                                *)
LEMMA OrderIsBijection ==
  ASSUME NEW S, IsFiniteSet(S), NEW o \in SetToSeqs(S)
  PROVE  LET n == Cardinality(S)
         IN /\ n \in Nat /\ o \in [1 .. n -> S]
            /\ \A i, j \in 1 .. n : o[i] = o[j] => i = j
            /\ \A g \in S : \E i \in 1 .. n : o[i] = g
            /\ o \in Seq(S) /\ Len(o) = n
<1> DEFINE n == Cardinality(S)
<1>1. n \in Nat
  BY FS_CardinalityType
<1>2. o \in [1 .. n -> S] /\ \A i, j \in 1 .. n : i # j => o[i] # o[j]
  BY DEF SetToSeqs
<1> HIDE DEF n
<1>3. o \in Seq(S) /\ Len(o) = n
  BY <1>1, <1>2
<1>4. o \in Injection(1 .. n, S)
  BY <1>2 DEF Injection, IsInjective
<1>5. Cardinality(1 .. n) = n
  BY <1>1, FS_Interval
<1>6. o \in Surjection(1 .. n, S)
  BY <1>4, <1>5, FS_Injection DEF n
<1>7. QED
  BY <1>1, <1>2, <1>3, <1>6 DEF Surjection, n

(* Of two orders, the newest first, none has an older guide at a place     *)
(* than the other: those that are as new as the first's would not find     *)
(* room before that place in the second.                                   *)
LEMMA NoneIsNewer ==
  ASSUME NEW S, IsFiniteSet(S), \A g \in S : guides[g].created_at \in Int,
         NEW o \in SetToSeqs(S), NEW q \in SetToSeqs(S), NewestFirst(o), NewestFirst(q),
         NEW i \in 1 .. Cardinality(S)
  PROVE  guides[o[i]].created_at <= guides[q[i]].created_at
<1> DEFINE n == Cardinality(S)
           at(g) == guides[g].created_at
<1>0. n \in Nat /\ i \in 1 .. n
  BY FS_CardinalityType
<1>1. /\ o \in [1 .. n -> S] /\ q \in [1 .. n -> S]
      /\ \A j, k \in 1 .. n : o[j] = o[k] => j = k
      /\ \A g \in S : \E j \in 1 .. n : q[j] = g
  BY OrderIsBijection
<1>2. /\ \A j, k \in 1 .. n : j < k => at(o[j]) >= at(o[k])
      /\ \A j, k \in 1 .. n : j < k => at(q[j]) >= at(q[k])
  BY <1>1 DEF NewestFirst
<1>3. \A g \in S : at(g) \in Int
  OBVIOUS
<1> HIDE DEF n, at
<1> SUFFICES ASSUME ~ (at(o[i]) <= at(q[i])) PROVE FALSE
  BY DEF at
<1> DEFINE f == [k \in 1 .. i |-> CHOOSE j \in 1 .. n : q[j] = o[k]]
<1>inside. i \in Nat /\ i - 1 \in Nat /\ \A k \in 1 .. i : k \in 1 .. n /\ (k = i \/ k < i)
  BY <1>0
<1>4. ASSUME NEW k \in 1 .. i PROVE f[k] \in 1 .. i - 1 /\ q[f[k]] = o[k] /\ k \in 1 .. n
  <2>1. k \in 1 .. n /\ (k = i \/ k < i)
    BY <1>inside
  <2>typed. at(o[k]) \in Int /\ at(o[i]) \in Int /\ at(q[i]) \in Int
    <3>1. o[k] \in S /\ o[i] \in S /\ q[i] \in S
      BY <1>0, <1>1, <2>1
    <3>2. QED
      BY <1>3, <3>1
  <2>2. at(o[k]) >= at(o[i])
    <3>1. CASE k = i
      BY <2>typed, <3>1
    <3>2. CASE k < i
      BY <1>0, <1>2, <2>1, <3>2
    <3>3. QED
      BY <2>1, <3>1, <3>2
  <2>3. f[k] \in 1 .. n /\ q[f[k]] = o[k]
    BY <1>1, <2>1
  <2> HIDE DEF f
  <2>4. ~ (i < f[k]) /\ i # f[k]
    <3> DEFINE j == f[k]
    <3>1. j \in 1 .. n /\ at(q[j]) = at(o[k])
      BY <2>3
    <3> HIDE DEF j
    <3>2. ~ (i < j)
      <4> SUFFICES ASSUME i < j PROVE FALSE
        OBVIOUS
      <4>1. at(q[i]) >= at(q[j])
        BY <1>0, <1>2, <3>1
      <4>2. QED
        BY <2>typed, <2>2, <3>1, <4>1
    <3>3. i # j
      BY <2>typed, <2>2, <3>1
    <3>4. QED
      BY <3>2, <3>3 DEF j
  <2>5. QED
    BY <1>0, <2>1, <2>3, <2>4
<1> HIDE DEF f
<1>5. f \in [1 .. i -> 1 .. i - 1]
  BY <1>4 DEF f
<1>6. /\ IsFiniteSet(1 .. i) /\ Cardinality(1 .. i) = i
      /\ IsFiniteSet(1 .. i - 1) /\ Cardinality(1 .. i - 1) = i - 1
  BY <1>inside, FS_Interval
<1>7. \E j, k \in 1 .. i : j # k /\ f[j] = f[k]
  <2> DEFINE A == 1 .. i
             B == 1 .. i - 1
  <2>1. Cardinality(B) < Cardinality(A)
    BY <1>inside, <1>6
  <2> HIDE DEF A, B
  <2>2. \E j, k \in A : j # k /\ f[j] = f[k]
    BY <1>5, <1>6, <2>1, FS_PigeonHole DEF A, B
  <2>3. QED
    BY <2>2 DEF A
<1>8. QED
  <2>1. PICK j, k \in 1 .. i : j # k /\ f[j] = f[k]
    BY <1>7
  <2>2. o[j] = q[f[j]] /\ o[k] = q[f[k]] /\ j \in 1 .. n /\ k \in 1 .. n
    BY <1>4
  <2>3. o[j] = o[k]
    BY <2>1, <2>2
  <2>4. QED
    BY <1>1, <2>1, <2>2, <2>3

(* A reader's marks and the guides they are on, one for one.               *)
LEMMA MarksAreCounted ==
  ASSUME CommunityInv, MarksLive, NEW kind, NEW u
  PROVE  /\ IsFiniteSet(Marked(kind, u))
         /\ Cardinality(Marked(kind, u)) = MarkedTotal(kind, u)
         /\ \A g \in Marked(kind, u) : guides[g].created_at \in Int
<1> DEFINE S == Marked(kind, u)
           mine == {m \in marks : m[1] = kind /\ m[3] = u}
           f == [m \in mine |-> m[2]]
<1>1. \A m \in mine : m = <<kind, m[2], u>> /\ m[2] \in S
  BY DEF MarksLive, Exists, Marked
<1>2. \A g \in S : <<kind, g, u>> \in mine /\ <<kind, g, u>>[2] = g
  BY DEF Marked
<1>3. IsFiniteSet(mine)
  BY FS_Subset DEF CommunityInv, TablesTyped
<1>4. \A g \in S : guides[g].created_at \in Int
  BY DEF Marked, CommunityInv, TablesTyped, GuideRow
<1> HIDE DEF S, mine
<1>5. f \in [mine -> S]
  BY <1>1
<1>6. \A a, b \in mine : f[a] = f[b] => a = b
  BY <1>1
<1>7. \A g \in S : \E m \in mine : f[m] = g
  BY <1>2
<1> HIDE DEF f
<1>8. f \in Bijection(mine, S)
  BY <1>5, <1>6, <1>7 DEF Bijection, Injection, Surjection, IsInjective
<1>9. IsFiniteSet(S) /\ Cardinality(S) = Cardinality(mine)
  <2>1. ExistsBijection(mine, S)
    BY <1>8 DEF ExistsBijection
  <2>2. QED
    BY <1>3, <2>1, FS_Bijection
<1>10. QED
  BY <1>4, <1>9 DEF S, mine, MarkedTotal

(* Places that have an element of T and the elements of T are as many.     *)
AsManyPlaces(o, n, T) == Cardinality({i \in 1 .. n : o[i] \in T}) = Cardinality(T)

(* An order has each element at one place, so they are.                    *)
LEMMA PlacesAreCounted ==
  ASSUME NEW S, IsFiniteSet(S), NEW o \in SetToSeqs(S), NEW T \in SUBSET S
  PROVE  AsManyPlaces(o, Cardinality(S), T)
<1> DEFINE n == Cardinality(S)
           A == {i \in 1 .. n : o[i] \in T}
           h == [i \in A |-> o[i]]
<1>1. /\ n \in Nat /\ o \in [1 .. n -> S]
      /\ \A i, j \in 1 .. n : o[i] = o[j] => i = j
      /\ \A g \in S : \E i \in 1 .. n : o[i] = g
  BY OrderIsBijection
<1> HIDE DEF n
<1>2. IsFiniteSet(A)
  <2>1. IsFiniteSet(1 .. n) /\ A \subseteq 1 .. n
    BY <1>1, FS_Interval
  <2>2. QED
    BY <2>1, FS_Subset
<1>3. h \in [A -> T] /\ (\A i, j \in A : h[i] = h[j] => i = j) /\ \A g \in T : \E i \in A : h[i] = g
  BY <1>1
<1> HIDE DEF A, h
<1>4. h \in Bijection(A, T)
  BY <1>3 DEF Bijection, Injection, Surjection, IsInjective
<1>5. ExistsBijection(A, T)
  BY <1>4 DEF ExistsBijection
<1>6. Cardinality(T) = Cardinality(A)
  BY <1>2, <1>5, FS_Bijection
<1>7. QED
  BY <1>6 DEF A, n, AsManyPlaces

(* Whatever order each page is read in, what is shown is what is marked,   *)
(* second by second.                                                       *)
LEMMA PagesShowMarks ==
  ASSUME CommunityInv, MarksLive, NEW kind, NEW u, NEW size \in Nat \ {0}
  PROVE  PagesShow(kind, u, size)
<1> DEFINE total == MarkedTotal(kind, u)
           pages == PageCount(total, size)
           S == Marked(kind, u)
           at(g) == guides[g].created_at
<1>1. IsFiniteSet(S) /\ Cardinality(S) = total /\ \A g \in S : at(g) \in Int
  BY MarksAreCounted
<1>2. total \in Nat
  BY <1>1, FS_CardinalityType
<1> HIDE DEF total
<1>3. pages \in Nat /\ 1 \in 1 .. pages /\ Min({pages * size, total}) = total
  BY <1>2, PagesSuffice
<1> HIDE DEF pages, S
<1> SUFFICES ASSUME NEW reading \in [1 .. pages -> MarkedItems(kind, u)]
             PROVE  LET shown == AllPages(reading, size, pages)
                    IN /\ Len(shown) = total
                       /\ \A i \in DOMAIN shown : shown[i] \in S
                       /\ \A t \in 0 .. MaxSecond :
                            Cardinality({i \in DOMAIN shown : at(shown[i]) = t})
                              = Cardinality({g \in S : at(g) = t})
  BY DEF PagesShow, total, pages, S
<1> DEFINE shown == AllPages(reading, size, pages)
           o == reading[1]
<1>4. \A p \in 1 .. pages : reading[p] \in SetToSeqs(S) /\ NewestFirst(reading[p])
  BY DEF MarkedItems, S
<1>5. \A p \in 1 .. pages : /\ reading[p] \in Seq(S) /\ Len(reading[p]) = total
                            /\ reading[p] \in [1 .. total -> S]
  BY <1>1, <1>4, OrderIsBijection
<1>6. /\ shown \in Seq(S) /\ Len(shown) = total
      /\ \A i \in 1 .. total : \E p \in 1 .. pages : shown[i] = reading[p][i]
  <2>1. ShowsInPlace(shown, S, reading, pages, Min({pages * size, total}))
    BY <1>2, <1>3, <1>5, PagesRead
  <2>2. QED
    BY <1>3, <2>1 DEF ShowsInPlace
<1> HIDE DEF shown
<1>7. o \in SetToSeqs(S) /\ NewestFirst(o) /\ o \in [1 .. total -> S]
  BY <1>3, <1>4, <1>5
<1> HIDE DEF o
<1>8. ASSUME NEW i \in 1 .. total PROVE at(shown[i]) = at(o[i])
  <2>1. PICK p \in 1 .. pages : shown[i] = reading[p][i]
    BY <1>6
  <2> DEFINE q == reading[p]
  <2>2. q \in SetToSeqs(S) /\ NewestFirst(q) /\ q \in [1 .. total -> S]
    BY <1>4, <1>5
  <2> HIDE DEF q
  <2>3. at(o[i]) <= at(q[i]) /\ at(q[i]) <= at(o[i])
    BY <1>1, <1>7, <2>2, NoneIsNewer
  <2>4. at(o[i]) \in Int /\ at(q[i]) \in Int
    BY <1>1, <1>7, <2>2
  <2>5. at(o[i]) = at(q[i])
    BY <2>3, <2>4
  <2>6. QED
    BY <2>1, <2>5 DEF q
<1>9. DOMAIN shown = 1 .. total
  BY <1>6
<1>10. ASSUME NEW t
       PROVE  Cardinality({i \in DOMAIN shown : at(shown[i]) = t}) = Cardinality({g \in S : at(g) = t})
  <2> DEFINE T == {g \in S : at(g) = t}
  <2>1. {i \in DOMAIN shown : at(shown[i]) = t} = {i \in 1 .. total : o[i] \in T}
    BY <1>7, <1>8, <1>9
  <2>2. T \in SUBSET S
    OBVIOUS
  <2> HIDE DEF T
  <2>3. AsManyPlaces(o, Cardinality(S), T)
    BY <1>1, <1>7, <2>2, PlacesAreCounted
  <2>4. QED
    BY <1>1, <2>1, <2>3 DEF T, AsManyPlaces
<1>11. \A i \in DOMAIN shown : shown[i] \in S
  BY <1>6
<1>12. QED
  BY <1>6, <1>10, <1>11 DEF shown

(* What PagesShowAllMarks says, of pages of any size.                      *)
PagesOfAnySize ==
  \A kind \in Kinds, u \in Readers, size \in Nat \ {0} : PagesShow(kind, u, size)

(* However many rows a page has, all pages together show as many rows as   *)
(* the reader has marks, and of each second as many as are marked: only    *)
(* guides that share a second can stand in for one another.                *)
THEOREM PagesOfAnySizeAreTrue == CommunitySpec => []PagesOfAnySize
<1>1. CommunityInv /\ MarksLive => PagesOfAnySize
  BY PagesShowMarks DEF PagesOfAnySize
<1>2. CommunityInit => MarksLive
  BY DEF CommunityInit, MarksLive
<1>3. QED
  BY <1>1, <1>2, CommunityInitially, CommunityStep, MarksLiveStep, PTL DEF CommunitySpec

(* Paging through one's likes or favourites shows as many as the total     *)
(* says, whatever was deleted, also half-way, and a guide alone in its     *)
(* second once, in whatever order each query finds those that share one.   *)
THEOREM PagesAreTrue == CommunitySpec => []PagesShowAllMarks
<1>1. PagesOfAnySize => PagesShowAllMarks
  BY DEF PagesOfAnySize, PagesShowAllMarks
<1>2. QED
  BY <1>1, PagesOfAnySizeAreTrue, PTL
=============================================================================
