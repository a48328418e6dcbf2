------------------------- MODULE FeedCollectProofs --------------------------
(* Theorems about the feed's batch: for any sources, articles and labels,  *)
(* any interval and backoff, and any number of batches.                    *)
EXTENDS FeedCollect, SequenceTheorems, FiniteSetTheorems, TLAPS

----------------------------------------------------------------------------
(* What a batch goes through.                                              *)

Contributors == {"memory"} \cup DOMAIN Articles
Plan == <<"memory">> \o Sources
Batches == [at : Nat, todo : Seq(Contributors), pending : SUBSET AllArticles,
            responded : BOOLEAN, attempted : Nat, stored : Nat, calls : Nat]
Keys == AllArticles \cup ({"memory"} \X Labels \X Nat)

LEMMA JustOne ==
    ASSUME NEW S, NEW x \in S
    PROVE  <<x>> \in Seq(S) /\ Len(<<x>>) = 1 /\ <<x>>[1] = x
OBVIOUS

LEMMA PlanIs ==
    /\ Len(Sources) \in Nat /\ Len(Plan) = Len(Sources) + 1 /\ Plan \in Seq(Contributors)
    /\ \A i \in 1 .. Len(Plan) : Plan[i] = "memory" <=> i = 1
<1>1. PICK s \in Seq(Contributors) : s = Sources /\ \A i \in 1 .. Len(s) : s[i] # "memory"
  <2>1. Sources \in Seq(Contributors)
    BY FeedAssumption DEF Contributors
  <2>2. \A i \in 1 .. Len(Sources) : Sources[i] # "memory"
    BY FeedAssumption, ElementOfSeq
  <2> QED BY <2>1, <2>2
<1>2. PICK m \in Seq(Contributors) : m = <<"memory">> /\ Len(m) = 1 /\ m[1] = "memory"
  <2>1. "memory" \in Contributors
    BY DEF Contributors
  <2> QED BY <2>1, JustOne
<1>3. /\ m \o s \in Seq(Contributors) /\ Len(m \o s) = Len(m) + Len(s) /\ Len(s) \in Nat
      /\ \A i \in 1 .. Len(m) + Len(s) :
            (m \o s)[i] = IF i <= Len(m) THEN m[i] ELSE s[i - Len(m)]
  BY ConcatProperties, LenProperties
<1>4. \A i \in 1 .. Len(s) + 1 : i # 1 => ~(i <= 1) /\ i - 1 \in 1 .. Len(s)
  BY <1>3
<1> QED BY <1>1, <1>2, <1>3, <1>4 DEF Plan

LEMMA EmptyBatch == NoBatch \in Batches /\ NoBatch.pending = {} /\ NoBatch.todo = <<>>
BY EmptySeq DEF NoBatch, Batches

\* What a source lists is finite, and so is what callbacks yield.
LEMMA ListsAreFinite ==
    /\ \A s \in DOMAIN Articles : IsFiniteSet(ArticleKeys(s)) /\ ArticleKeys(s) \subseteq AllArticles
    /\ \A labels \in SUBSET Labels : IsFiniteSet({CallbackKey(l) : l \in labels})
<1>1. ASSUME NEW s \in DOMAIN Articles PROVE IsFiniteSet(ArticleKeys(s))
  <2>1. [n \in Articles[s] |-> DedupKey("rss", s, n)] \in Surjection(Articles[s], ArticleKeys(s))
    BY DEF Surjection, ArticleKeys
  <2>2. IsFiniteSet(Articles[s])
    BY FeedAssumption
  <2> QED BY <2>1, <2>2, FS_Surjection
<1>2. ASSUME NEW labels \in SUBSET Labels PROVE IsFiniteSet({CallbackKey(l) : l \in labels})
  <2>1. [l \in labels |-> CallbackKey(l)] \in Surjection(labels, {CallbackKey(l) : l \in labels})
    BY DEF Surjection
  <2>2. IsFiniteSet(labels)
    BY FeedAssumption, FS_Subset
  <2> QED BY <2>1, <2>2, FS_Surjection
<1> QED BY <1>1, <1>2 DEF AllArticles

LEMMA OneMore ==
    ASSUME NEW m \in Nat, NEW k \in Nat
    PROVE  m * (k + 1) = m * k + m /\ m * k \in Nat
OBVIOUS

LEMMA NoMore ==
    ASSUME NEW m \in Nat, NEW j \in Nat, NEW k \in Nat, j <= k
    PROVE  m * j <= m * k
<1>1. PICK d \in Nat : k = j + d
  <2>1. k - j \in Nat /\ k = j + (k - j)
    OBVIOUS
  <2> QED BY <2>1
<1>2. m * (j + d) = m * j + m * d /\ m * d \in Nat /\ m * j \in Nat
  OBVIOUS
<1> QED BY <1>1, <1>2

----------------------------------------------------------------------------
(* The types, and what bounds a batch: it goes through the plan once, every *)
(* article it still has to summarise is counted already, and what it has   *)
(* spent is what the contributors behind it may spend.                     *)

FeedTyped ==
    /\ now \in 0 .. LastTime /\ up \in BOOLEAN /\ collecting \in BOOLEAN
    /\ batch \in Batches /\ batch.at <= now
    /\ ~collecting => batch = NoBatch
    /\ collecting => up
    /\ retryAfter \in Int \cup {Never} /\ lastCollect \in Int \cup {Never}
    /\ healthyAt \in Int \cup {Never} /\ sickAt \in Int \cup {Never}
    /\ table \subseteq Keys

Spent(b) == b.calls + Cardinality(b.pending)
OnPlan(b) ==
    /\ Len(b.todo) <= Len(Plan)
    /\ \A i \in 1 .. Len(b.todo) : b.todo[i] = Plan[Len(Plan) - Len(b.todo) + i]
Frugal(b) ==
    IF Len(b.todo) = Len(Plan) THEN b.calls = 0 /\ b.pending = {}
    ELSE Spent(b) <= 1 + MostTaken * (Len(Sources) - Len(b.todo))
Sound(b) ==
    /\ IsFiniteSet(b.pending)
    /\ b.stored + Cardinality(b.pending) <= b.attempted
    /\ OnPlan(b)
    /\ Frugal(b)

LEMMA MostTakenNat == MostTaken \in Nat
BY FeedAssumption DEF MostTaken

LEMMA SoundNoBatch == Sound(NoBatch)
<1>1. Len(<<>>) = 0
  BY EmptySeq
<1>2. MostTaken * Len(Sources) \in Nat
  BY PlanIs, OneMore, MostTakenNat
<1>3. /\ NoBatch.todo = <<>> /\ NoBatch.pending = {} /\ NoBatch.calls = 0
      /\ NoBatch.stored = 0 /\ NoBatch.attempted = 0
  BY DEF NoBatch
<1>4. Len(Sources) - 0 = Len(Sources) /\ Len(Plan) # 0
  BY PlanIs
<1> QED BY <1>1, <1>2, <1>3, <1>4, PlanIs, FS_EmptySet DEF Sound, OnPlan, Frugal, Spent

\* A contributor is done with, for at most a call or the articles it leaves to summarise.
LEMMA SoundNext ==
    ASSUME NEW b \in Batches, Sound(b), b.pending = {}, b.todo # <<>>,
           NEW c \in Batches, c.todo = Tail(b.todo), IsFiniteSet(c.pending),
           c.stored + Cardinality(c.pending) <= c.attempted,
           IF Head(b.todo) = "memory" THEN Spent(c) <= b.calls + 1
           ELSE Spent(c) <= b.calls + MostTaken
    PROVE  Sound(c)
<1> DEFINE n == Len(b.todo)
<1>1. /\ b.todo \in Seq(Contributors) /\ n \in Nat /\ n # 0 /\ Len(c.todo) = n - 1
      /\ Head(b.todo) = b.todo[1] /\ 1 \in 1 .. n
      /\ \A i \in 1 .. n - 1 : c.todo[i] = b.todo[i + 1]
  <2>1. b.todo \in Seq(Contributors)
    BY DEF Batches
  <2>2. Len(b.todo) \in Nat /\ Len(b.todo) # 0
    BY <2>1, LenProperties, EmptySeq
  <2> QED BY <2>1, <2>2, HeadTailProperties
<1>2. n <= Len(Plan) /\ \A i \in 1 .. n : b.todo[i] = Plan[Len(Plan) - n + i]
  BY DEF Sound, OnPlan
<1> HIDE DEF n
<1>3. Head(b.todo) = "memory" <=> n = Len(Plan)
  <2>1. Len(Plan) - n + 1 \in 1 .. Len(Plan)
    BY <1>1, <1>2, PlanIs
  <2>2. Head(b.todo) = Plan[Len(Plan) - n + 1]
    BY <1>1, <1>2
  <2>3. Len(Plan) - n + 1 = 1 <=> n = Len(Plan)
    BY <1>1, PlanIs
  <2> QED BY <2>1, <2>2, <2>3, PlanIs
<1>4. OnPlan(c)
  <2>1. n - 1 <= Len(Plan)
    BY <1>1, <1>2, PlanIs
  <2>2. ASSUME NEW i \in 1 .. n - 1 PROVE c.todo[i] = Plan[Len(Plan) - (n - 1) + i]
    <3>1. i + 1 \in 1 .. n /\ Len(Plan) - n + (i + 1) = Len(Plan) - (n - 1) + i
      BY <1>1, PlanIs
    <3> QED BY <1>1, <1>2, <3>1
  <2> QED BY <1>1, <2>1, <2>2 DEF OnPlan
<1>5. /\ b.calls \in Nat /\ Spent(b) = b.calls
      /\ Spent(c) \in Nat /\ MostTaken \in Nat /\ Len(Sources) \in Nat
  <2>1. Cardinality({}) = 0 /\ Cardinality(c.pending) \in Nat
    BY FS_EmptySet, FS_CardinalityType
  <2>2. b.calls \in Nat /\ c.calls \in Nat
    BY DEF Batches
  <2> QED BY <2>1, <2>2, PlanIs, MostTakenNat DEF Spent
<1>6. Len(c.todo) # Len(Plan) /\ Spent(c) <= 1 + MostTaken * (Len(Sources) - (n - 1))
  <2>1. CASE n = Len(Plan)
    <3>1. Spent(c) <= 1
      BY <1>3, <1>5, <2>1 DEF Sound, Frugal, n
    <3>2. Len(Sources) - (n - 1) = 0 /\ MostTaken * 0 = 0
      BY <1>5, <2>1, PlanIs
    <3> QED BY <1>1, <1>5, <2>1, <3>1, <3>2, PlanIs
  <2>2. CASE n # Len(Plan)
    <3>1. b.calls <= 1 + MostTaken * (Len(Sources) - n) /\ Spent(c) <= b.calls + MostTaken
      BY <1>3, <1>5, <2>2 DEF Sound, Frugal, n
    <3>2. Len(Sources) - n \in Nat /\ Len(Sources) - (n - 1) = (Len(Sources) - n) + 1
      BY <1>1, <1>2, <1>5, <2>2, PlanIs
    <3>3. MostTaken * (Len(Sources) - (n - 1)) = MostTaken * (Len(Sources) - n) + MostTaken
          /\ MostTaken * (Len(Sources) - n) \in Nat
      BY <1>5, <3>2, OneMore
    <3>4. n - 1 # Len(Plan)
      BY <1>1, <1>2, PlanIs
    <3> QED BY <1>1, <1>5, <3>1, <3>3, <3>4
  <2> QED BY <2>1, <2>2
<1>7. Frugal(c)
  BY <1>1, <1>6 DEF Frugal
<1> QED BY <1>4, <1>7 DEF Sound

\* One article is summarised, or given up.
LEMMA SoundLess ==
    ASSUME NEW b \in Batches, Sound(b), NEW key \in b.pending,
           NEW c \in Batches, c.todo = b.todo, c.pending = b.pending \ {key},
           c.calls = b.calls + 1, c.attempted = b.attempted, c.stored <= b.stored + 1
    PROVE  Sound(c)
<1>1. /\ IsFiniteSet(c.pending) /\ Cardinality(b.pending) \in Nat
      /\ Cardinality(c.pending) = Cardinality(b.pending) - 1
  BY FS_RemoveElement, FS_CardinalityType DEF Sound
<1>2. b.calls \in Nat /\ b.attempted \in Nat /\ b.stored \in Nat /\ c.stored \in Nat
  BY DEF Batches
<1>3. Spent(c) = Spent(b)
  BY <1>1, <1>2 DEF Spent
<1>4. c.stored + Cardinality(c.pending) <= c.attempted
  BY <1>1, <1>2 DEF Sound
<1>5. Len(b.todo) # Len(Plan)
  BY DEF Sound, Frugal
<1> QED BY <1>1, <1>3, <1>4, <1>5 DEF Sound, OnPlan, Frugal

----------------------------------------------------------------------------
(* The steps.                                                              *)

FeedInv == FeedTyped /\ Sound(batch)

LEMMA ReportKeeps ==
    ASSUME FeedInv, NEW c, AtContributor(c),
           NEW responded \in BOOLEAN, NEW attempted \in Nat, NEW stored \in Nat, NEW calls \in {0, 1},
           stored <= attempted, calls = 1 => c = "memory",
           Report(responded, attempted, stored, calls)
    PROVE  batch' \in Batches /\ batch'.at = batch.at /\ Sound(batch')
<1>1. batch \in Batches /\ batch.pending = {} /\ batch.todo # <<>> /\ Head(batch.todo) = c
  BY DEF FeedInv, FeedTyped, AtContributor
<1>2. Tail(batch.todo) \in Seq(Contributors)
  <2>1. batch.todo \in Seq(Contributors)
    BY <1>1 DEF Batches
  <2> QED BY <1>1, <2>1, HeadTailProperties
<1>3. batch' = [at |-> batch.at, todo |-> Tail(batch.todo), pending |-> batch.pending,
                responded |-> batch.responded \/ responded, attempted |-> batch.attempted + attempted,
                stored |-> batch.stored + stored, calls |-> batch.calls + calls]
  BY <1>1 DEF Report, Batches
<1>4. batch' \in Batches
  BY <1>1, <1>2, <1>3 DEF Batches
<1>5. /\ batch'.at = batch.at /\ batch'.todo = Tail(batch.todo) /\ batch'.pending = {}
      /\ batch'.attempted = batch.attempted + attempted /\ batch'.stored = batch.stored + stored
      /\ batch'.calls = batch.calls + calls
  BY <1>1, <1>3
<1>6. Cardinality({}) = 0 /\ IsFiniteSet({})
  BY FS_EmptySet
<1>7. Sound(batch) /\ batch.stored <= batch.attempted
      /\ batch.stored \in Nat /\ batch.attempted \in Nat /\ batch.calls \in Nat
  BY <1>1, <1>6 DEF FeedInv, Sound, Batches
<1>8. batch'.stored + Cardinality(batch'.pending) <= batch'.attempted
  BY <1>5, <1>6, <1>7
<1>9. /\ Spent(batch') <= batch.calls + 1
      /\ c # "memory" => Spent(batch') <= batch.calls + MostTaken
  BY <1>5, <1>6, <1>7, MostTakenNat DEF Spent
<1>10. Sound(batch')
  BY <1>1, <1>4, <1>5, <1>6, <1>7, <1>8, <1>9, SoundNext
<1> QED BY <1>4, <1>5, <1>10

LEMMA CallbackKeys ==
    ASSUME FeedInv, NEW labels \in SUBSET Labels
    PROVE  {CallbackKey(l) : l \in labels} \subseteq Keys
<1>1. batch.at \in Nat /\ DedupWindow \in Nat \ {0}
  BY FeedAssumption DEF FeedInv, FeedTyped, Batches
<1>2. batch.at \div DedupWindow \in Nat
  BY <1>1
<1>3. \A l \in labels : CallbackKey(l) \in {"memory"} \X Labels \X Nat
  BY <1>2 DEF CallbackKey, DedupKey
<1> QED BY <1>3 DEF Keys

\* Asking a contributor moves the batch on, and nothing else but the table.
LEMMA AskKeeps ==
    ASSUME FeedInv, AskContributor
    PROVE  /\ collecting /\ UNCHANGED <<now, up, collecting, retryAfter, lastCollect, healthyAt, sickAt>>
           /\ batch' \in Batches /\ batch'.at = batch.at /\ Sound(batch')
           /\ table' \subseteq Keys
<1>1. batch \in Batches /\ Sound(batch) /\ table \subseteq Keys
  BY DEF FeedInv, FeedTyped
<1>2. CASE CallbacksUnread \/ CallbacksTooFew \/ CallbacksFail
             \/ \E s \in DOMAIN Articles : SourceRaises(s) \/ SourceUnreachable(s)
  <2>1. /\ collecting /\ table' = table
        /\ UNCHANGED <<now, up, collecting, retryAfter, lastCollect, healthyAt, sickAt>>
    BY <1>2 DEF CallbacksUnread, CallbacksTooFew, CallbacksFail, SourceRaises, SourceUnreachable, AtContributor
  <2>2. PICK c : AtContributor(c)
           /\ (Report(FALSE, 0, 0, 0) \/ Report(TRUE, 0, 0, 0) \/ (c = "memory" /\ Report(TRUE, 1, 0, 1)))
    BY <1>2 DEF CallbacksUnread, CallbacksTooFew, CallbacksFail, SourceRaises, SourceUnreachable
  <2>3. batch' \in Batches /\ batch'.at = batch.at /\ Sound(batch')
    <3>0. 0 \in Nat /\ 1 \in Nat /\ 0 <= 0 /\ 0 <= 1 /\ 0 # 1 /\ 0 \in {0, 1} /\ 1 \in {0, 1}
      OBVIOUS
    <3>1. CASE Report(FALSE, 0, 0, 0)
      BY <2>2, <3>0, <3>1, ReportKeeps, ZenonT(60)
    <3>2. CASE Report(TRUE, 0, 0, 0)
      BY <2>2, <3>0, <3>2, ReportKeeps, ZenonT(60)
    <3>3. CASE c = "memory" /\ Report(TRUE, 1, 0, 1)
      BY <2>2, <3>0, <3>3, ReportKeeps, ZenonT(60)
    <3> QED BY <2>2, <3>1, <3>2, <3>3
  <2> QED BY <1>1, <2>1, <2>3
<1>3. CASE \E labels \in SUBSET Labels : CallbacksFound(labels)
  <2>1. PICK labels \in SUBSET Labels : CallbacksFound(labels)
    BY <1>3
  <2> DEFINE new == {CallbackKey(l) : l \in labels} \ table
  <2>2. Cardinality(new) \in Nat
    BY ListsAreFinite, FS_Difference, FS_CardinalityType
  <2>3. table' = table \cup new /\ new \subseteq Keys
    BY <2>1, CallbackKeys DEF CallbacksFound
  <2>4. /\ AtContributor("memory") /\ Report(TRUE, Cardinality(new), Cardinality(new), 1)
        /\ UNCHANGED <<now, up, collecting, retryAfter, lastCollect, healthyAt, sickAt>>
    BY <2>1 DEF CallbacksFound
  <2> HIDE DEF new
  <2>5. batch' \in Batches /\ batch'.at = batch.at /\ Sound(batch')
    <3>1. PICK k \in Nat : k = Cardinality(new) /\ k <= k
      BY <2>2
    <3>2. Report(TRUE, k, k, 1) /\ AtContributor("memory")
      BY <2>4, <3>1
    <3> QED BY <3>1, <3>2, ReportKeeps
  <2>6. table' \subseteq Keys
    BY <1>1, <2>3
  <2>7. collecting
    BY <2>4 DEF AtContributor
  <2> QED BY <2>4, <2>5, <2>6, <2>7
<1>4. CASE \E s \in DOMAIN Articles : \E listed \in SUBSET ArticleKeys(s) : SourceLists(s, listed)
  <2>0. PICK s \in DOMAIN Articles : \E listed \in SUBSET ArticleKeys(s) : SourceLists(s, listed)
    BY <1>4
  <2>1. PICK listed \in SUBSET ArticleKeys(s) : SourceLists(s, listed)
    BY <2>0
  <2>2. /\ collecting /\ table' = table /\ batch.pending = {} /\ batch.todo # <<>> /\ Head(batch.todo) = s
        /\ UNCHANGED <<now, up, collecting, retryAfter, lastCollect, healthyAt, sickAt>>
    BY <2>1 DEF SourceLists, AtContributor
  <2>3. PICK pending \in FirstUnknown(listed) :
          batch' = [batch EXCEPT !.todo = Tail(@), !.pending = pending, !.responded = TRUE,
                                 !.attempted = @ + Cardinality(pending)]
    BY <2>1 DEF SourceLists
  <2>4. /\ IsFiniteSet(pending) /\ pending \subseteq AllArticles
        /\ Cardinality(pending) \in Nat /\ Cardinality(pending) <= MostTaken
    <3>1. IsFiniteSet(listed \ table) /\ listed \subseteq AllArticles
      BY ListsAreFinite, FS_Subset, FS_Difference
    <3>2. pending \subseteq listed \ table
      BY DEF FirstUnknown
    <3>3. IsFiniteSet(pending)
      BY <3>1, <3>2, FS_Subset
    <3>4. Cardinality(listed \ table) \in Nat /\ Cardinality(pending) \in Nat
      BY <3>1, <3>3, FS_CardinalityType
    <3>5. Cardinality(pending) = IF Cardinality(listed \ table) < MostTaken
                                 THEN Cardinality(listed \ table) ELSE MostTaken
      BY DEF FirstUnknown
    <3> QED BY <3>1, <3>2, <3>3, <3>4, <3>5, MostTakenNat
  <2>5. batch' = [at |-> batch.at, todo |-> Tail(batch.todo), pending |-> pending, responded |-> TRUE,
                  attempted |-> batch.attempted + Cardinality(pending), stored |-> batch.stored,
                  calls |-> batch.calls]
    BY <1>1, <2>3 DEF Batches
  <2>6. batch' \in Batches
    <3>1. Tail(batch.todo) \in Seq(Contributors)
      <4>1. batch.todo \in Seq(Contributors)
        BY <1>1 DEF Batches
      <4> QED BY <2>2, <4>1, HeadTailProperties
    <3> QED BY <1>1, <2>4, <2>5, <3>1 DEF Batches
  <2>7. batch.stored <= batch.attempted /\ batch.stored \in Nat /\ batch.attempted \in Nat /\ batch.calls \in Nat
    BY <1>1, <2>2, FS_EmptySet DEF Sound, Batches
  <2>8. batch'.stored + Cardinality(batch'.pending) <= batch'.attempted
    BY <2>4, <2>5, <2>7
  <2>9. Spent(batch') <= batch.calls + MostTaken
    BY <2>4, <2>5, <2>7, MostTakenNat DEF Spent
  <2>10. Head(batch.todo) # "memory"
    BY <2>2, FeedAssumption
  <2>11. batch'.at = batch.at /\ batch'.todo = Tail(batch.todo) /\ IsFiniteSet(batch'.pending)
    BY <2>4, <2>5
  <2>12. Sound(batch')
    BY <1>1, <2>2, <2>6, <2>8, <2>9, <2>10, <2>11, SoundNext
  <2> QED BY <1>1, <2>2, <2>6, <2>11, <2>12
<1>5. CASE \E key \in AllArticles : Summarised(key) \/ SummaryFails(key)
  <2>1. PICK key \in AllArticles : Summarised(key) \/ SummaryFails(key)
    BY <1>5
  <2>2. /\ collecting /\ key \in batch.pending /\ table' \subseteq Keys
        /\ UNCHANGED <<now, up, collecting, retryAfter, lastCollect, healthyAt, sickAt>>
    BY <1>1, <2>1 DEF Summarised, SummaryFails, Keys
  <2>3. PICK stored \in {batch.stored, batch.stored + 1} :
          batch' = [at |-> batch.at, todo |-> batch.todo, pending |-> batch.pending \ {key},
                    responded |-> batch.responded, attempted |-> batch.attempted, stored |-> stored,
                    calls |-> batch.calls + 1]
    BY <1>1, <2>1 DEF Summarised, SummaryFails, Batches
  <2>4. batch' \in Batches
    BY <1>1, <2>3 DEF Batches
  <2>5. batch'.stored <= batch.stored + 1
    BY <1>1, <2>3 DEF Batches
  <2>6. Sound(batch')
    BY <1>1, <2>2, <2>3, <2>4, <2>5, SoundLess
  <2> QED BY <2>2, <2>3, <2>4, <2>6
<1> QED BY <1>2, <1>3, <1>4, <1>5 DEF AskContributor

LEMMA FeedInvInit == FeedInit => FeedInv
<1>1. NoBatch.at = 0 /\ 0 \in 0 .. LastTime
  BY FeedAssumption DEF NoBatch
<1>2. NoBatch \in Batches /\ Sound(NoBatch)
  BY EmptyBatch, SoundNoBatch
<1> SUFFICES ASSUME FeedInit PROVE FeedInv
  OBVIOUS
<1>3. batch = NoBatch /\ now = 0 /\ collecting = FALSE /\ up = TRUE /\ table = {}
  BY DEF FeedInit
<1>4. batch \in Batches /\ batch.at <= now /\ now \in 0 .. LastTime /\ Sound(batch)
  BY <1>1, <1>2, <1>3
<1>5. {retryAfter, lastCollect, healthyAt, sickAt} = {Never}
  BY DEF FeedInit
<1> QED BY <1>3, <1>4, <1>5 DEF FeedInv, FeedTyped

LEMMA FeedInvNext ==
    ASSUME FeedInv, [FeedNext]_feedVars
    PROVE  FeedInv'
<1>1. /\ batch \in Batches /\ batch.at \in Nat /\ now \in 0 .. LastTime /\ LastTime \in Nat
      /\ Interval \in Nat /\ Backoff \in Nat
  BY FeedAssumption DEF FeedInv, FeedTyped, Batches
<1>2. CASE UNCHANGED feedVars
  BY <1>2 DEF feedVars, FeedInv, FeedTyped
<1>3. CASE MaybeCollect
  <2>1. batch' = [at |-> now, todo |-> Plan, pending |-> {}, responded |-> FALSE,
                  attempted |-> 0, stored |-> 0, calls |-> 0]
    BY <1>3 DEF MaybeCollect, NoBatch, Plan
  <2>2. /\ batch' \in Batches /\ batch'.at = now /\ batch'.todo = Plan /\ batch'.pending = {}
        /\ batch'.calls = 0 /\ batch'.stored = 0 /\ batch'.attempted = 0
    BY <1>1, <2>1, PlanIs DEF Batches
  <2>3. Len(Plan) - Len(Plan) = 0 /\ Len(Plan) \in Nat
    BY PlanIs
  <2>4. OnPlan(batch')
    <3>1. \A i \in 1 .. Len(Plan) : Len(Plan) - Len(Plan) + i = i
      BY <2>3
    <3> QED BY <2>2, <2>3, <3>1 DEF OnPlan
  <2>5. Sound(batch')
    BY <2>2, <2>4, FS_EmptySet DEF Sound, Frugal
  <2> QED BY <1>1, <1>3, <2>2, <2>5 DEF MaybeCollect, FeedInv, FeedTyped
<1>4. CASE AskContributor
  BY <1>4, AskKeeps DEF FeedInv, FeedTyped
<1>5. CASE EndHealthy \/ EndSick \/ Abort \/ Crash
  <2>1. batch' = NoBatch /\ ~collecting' /\ collecting' \in BOOLEAN /\ up' \in BOOLEAN /\ now' = now /\ table' = table
    BY <1>5 DEF EndHealthy, EndSick, Abort, Crash, FeedInv, FeedTyped
  <2>2. {retryAfter', lastCollect', healthyAt', sickAt'} \subseteq Int \cup {Never}
    <3>1. batch.at \in Int /\ batch.at + Backoff \in Int
      BY <1>1
    <3> QED BY <1>5, <3>1 DEF EndHealthy, EndSick, Abort, Crash, FeedInv, FeedTyped
  <2>3. batch'.at <= now'
    BY <1>1, <2>1 DEF NoBatch
  <2> QED BY <1>1, <2>1, <2>2, <2>3, EmptyBatch, SoundNoBatch DEF FeedInv, FeedTyped
<1>6. CASE Restart
  BY <1>6 DEF Restart, FeedInv, FeedTyped
<1>7. CASE TimePasses
  BY <1>1, <1>7 DEF TimePasses, FeedInv, FeedTyped
<1> QED BY <1>2, <1>3, <1>4, <1>5, <1>6, <1>7 DEF FeedNext

LEMMA FeedInvariant == FeedSpec => []FeedInv
<1>1. FeedInv /\ [FeedNext]_feedVars => FeedInv'
  BY FeedInvNext
<1> QED BY <1>1, FeedInvInit, PTL DEF FeedSpec

\* Type correctness, and the bound on calls: no batch makes more than one for
\* callbacks and MaxItems for each source, and none stores more than it tried.
THEOREM FeedTypes == FeedSpec => []FeedTypeOK
<1>1. FeedInv => FeedTypeOK
  <2> SUFFICES ASSUME FeedInv PROVE FeedTypeOK
    OBVIOUS
  <2>1. FeedTyped /\ Sound(batch) /\ batch \in Batches
    BY DEF FeedInv, FeedTyped
  <2>2. /\ batch.at \in 0 .. now /\ batch.pending \subseteq AllArticles
        /\ batch.stored \in Nat /\ batch.attempted \in Nat /\ batch.calls \in Nat
        /\ Len(batch.todo) \in Nat
    <3>1. batch.todo \in Seq(Contributors)
      BY <2>1 DEF Batches
    <3> QED BY <2>1, <3>1, LenProperties, FeedAssumption DEF FeedTyped, Batches
  <2>3. Cardinality(batch.pending) \in Nat
    BY <2>1, FS_CardinalityType DEF Sound
  <2>4. batch.stored \in 0 .. batch.attempted
    BY <2>1, <2>2, <2>3 DEF Sound
  <2>5. /\ MostTaken \in Nat /\ Len(Sources) \in Nat /\ MostTaken * Len(Sources) \in Nat
        /\ Len(batch.todo) <= Len(Sources) + 1 /\ Len(Plan) = Len(Sources) + 1
    BY <2>1, PlanIs, OneMore, MostTakenNat DEF Sound, OnPlan
  <2>6. batch.calls <= 1 + MostTaken * Len(Sources)
    <3>1. CASE Len(batch.todo) = Len(Plan)
      <4>1. batch.calls = 0
        BY <2>1, <3>1 DEF Sound, Frugal
      <4> QED BY <2>5, <4>1
    <3>2. CASE Len(batch.todo) # Len(Plan)
      <4>1. Len(Sources) - Len(batch.todo) \in Nat /\ Len(Sources) - Len(batch.todo) <= Len(Sources)
        BY <2>2, <2>5, <3>2
      <4>2. PICK k \in Nat : k = Len(Sources) - Len(batch.todo) /\ k <= Len(Sources)
        BY <4>1
      <4>3. MostTaken * k <= MostTaken * Len(Sources) /\ MostTaken * k \in Nat
        BY <2>5, <4>2, NoMore, OneMore
      <4>4. batch.calls + Cardinality(batch.pending) <= 1 + MostTaken * k
        BY <2>1, <3>2, <4>2 DEF Sound, Frugal, Spent
      <4>5. \A a, b, c, d \in Int : a + b <= 1 + c /\ 0 <= b /\ c <= d => a <= 1 + d
        OBVIOUS
      <4>6. 0 <= Cardinality(batch.pending) /\ batch.calls \in Int
        BY <2>2, <2>3
      <4> QED BY <2>3, <2>5, <4>3, <4>4, <4>5, <4>6
    <3> QED BY <3>1, <3>2
  <2>7. batch.calls \in 0 .. 1 + MostTaken * Len(Sources)
    BY <2>2, <2>5, <2>6
  <2> QED BY <2>1, <2>2, <2>4, <2>7 DEF FeedTyped, FeedTypeOK, Keys
<1> QED BY <1>1, FeedInvariant, PTL

\* After a healthy batch the next begins a whole interval later at the earliest, over
\* crashes, restarts, aborted and unhealthy batches; and one that got nowhere is not
\* repeated before the backoff is over, as long as the process lives.
THEOREM BatchesSpaced == FeedSpec => []Spaced
<1> DEFINE GapInv == /\ healthyAt = lastCollect
                     /\ sickAt # Never => retryAfter = sickAt + Backoff
                     /\ Spaced
<1>1. FeedInit => GapInv
  BY DEF FeedInit, Spaced
<1>2. FeedInv /\ GapInv /\ [FeedNext]_feedVars => GapInv'
  <2> SUFFICES ASSUME FeedInv, GapInv, [FeedNext]_feedVars PROVE GapInv'
    OBVIOUS
  <2>1. /\ Never \notin Int /\ Interval \in Nat /\ Backoff \in Nat /\ now \in Int
        /\ batch \in Batches /\ batch.at \in Int
        /\ {healthyAt, lastCollect, sickAt, retryAfter} \subseteq Int \cup {Never}
    BY FeedAssumption DEF FeedInv, FeedTyped, Batches
  <2>2. ASSUME UNCHANGED <<healthyAt, lastCollect, sickAt, retryAfter>>,
               collecting' => collecting /\ batch'.at = batch.at
        PROVE  GapInv'
    BY <2>2 DEF Spaced
  <2>3. CASE UNCHANGED feedVars
    BY <2>2, <2>3 DEF feedVars
  <2>4. CASE MaybeCollect
    <3>1. batch'.at = now
      BY <2>4 DEF MaybeCollect, NoBatch
    <3>2. healthyAt # Never => now - healthyAt >= Interval
      BY <2>4 DEF MaybeCollect, IntervalPassed
    <3>3. sickAt # Never => now - sickAt >= Backoff
      <4>1. sickAt # Never => retryAfter # Never
        BY <2>1
      <4> QED BY <2>1, <2>4, <4>1 DEF MaybeCollect, BackoffOver
    <3> QED BY <2>4, <3>1, <3>2, <3>3 DEF MaybeCollect, Spaced
  <2>5. CASE AskContributor
    BY <2>2, <2>5, AskKeeps
  <2>6. CASE EndHealthy \/ EndSick \/ Crash
    BY <2>6 DEF EndHealthy, EndSick, Crash, Spaced
  <2>7. CASE Abort \/ Restart \/ TimePasses
    BY <2>2, <2>7 DEF Abort, Restart, TimePasses
  <2> QED BY <2>3, <2>4, <2>5, <2>6, <2>7 DEF FeedNext
<1>3. GapInv => Spaced
  OBVIOUS
<1> QED BY <1>1, <1>2, <1>3, FeedInvariant, PTL DEF FeedSpec
=============================================================================
