---------------------------- MODULE FeedCollect -----------------------------
(***************************************************************************)
(* The interest feed's collection batch.  Every TICK may start one in the  *)
(* background; it asks its contributors one after the other, callbacks     *)
(* from the user's own words first, then the RSS sources, whose articles   *)
(* it summarises one by one, and at the end judges itself healthy or not.  *)
(* It awaits all the while: time passes, statements fail, the process dies.*)
(***************************************************************************)
EXTENDS Integers, Sequences, FiniteSets

CONSTANTS Sources,      \* the RSS sources, in their order
          Articles,     \* the articles each source may list, numbered
          Labels,       \* labels of callbacks
          DedupWindow,  \* callback_dedup_window_s
          MaxItems,     \* max_items_per_source
          Interval,     \* collect_interval_s
          Backoff,      \* retry_backoff_s
          Never,        \* Python's None for a time
          LastTime      \* bound: the clock stops there

\* Callbacks are no source; what may be listed or extracted is finite.
ASSUME FeedAssumption ==
    /\ Sources \in Seq(DOMAIN Articles) /\ "memory" \notin DOMAIN Articles
    /\ IsFiniteSet(Labels) /\ \A s \in DOMAIN Articles : IsFiniteSet(Articles[s])
    /\ DedupWindow \in Nat \ {0} /\ MaxItems \in Nat /\ LastTime \in Nat
    /\ Interval \in Nat /\ Backoff \in Nat
    /\ Never \notin Int

VARIABLES now,         \* the wall clock
          up,          \* the daemon runs
          collecting,  \* Feed._collecting
          batch,       \* the locals of collect()
          retryAfter,  \* Feed._retry_after
          lastCollect, \* table feed_meta
          table,       \* dedup keys of table topic_candidate
          healthyAt,   \* when the last healthy batch began
          sickAt       \* when the last unhealthy one began, in this process

feedVars == <<now, up, collecting, batch, retryAfter, lastCollect, table,
              healthyAt, sickAt>>

NoBatch == [at |-> 0, todo |-> <<>>, pending |-> {}, responded |-> FALSE,
            attempted |-> 0, stored |-> 0, calls |-> 0]

FeedInit ==
    /\ now = 0 /\ up = TRUE
    /\ collecting = FALSE /\ batch = NoBatch
    /\ retryAfter = Never /\ lastCollect = Never
    /\ table = {}
    /\ healthyAt = Never /\ sickAt = Never

----------------------------------------------------------------------------
(* Dedup keys: an article once for all, a label once in every window.      *)

DedupKey(source, topicKey, identity) == <<source, topicKey, identity>>
ArticleKeys(s) == {DedupKey("rss", s, n) : n \in Articles[s]}
AllArticles == UNION {ArticleKeys(s) : s \in DOMAIN Articles}
CallbackKey(label) == DedupKey("memory", label, batch.at \div DedupWindow)

(* maybe_collect: the gates, then the batch.  The tick's task runs before  *)
(* any time passes, and a second one would be turned away by the flag.     *)

IntervalPassed == IF lastCollect = Never THEN TRUE ELSE now - lastCollect >= Interval
BackoffOver == IF retryAfter = Never THEN TRUE ELSE now >= retryAfter

MaybeCollect ==
    /\ up /\ ~collecting
    /\ BackoffOver /\ IntervalPassed
    /\ collecting' = TRUE
    /\ batch' = [NoBatch EXCEPT !.at = now, !.todo = <<"memory">> \o Sources]
    /\ UNCHANGED <<now, up, retryAfter, lastCollect, table, healthyAt, sickAt>>

AtContributor(c) ==
    /\ collecting /\ batch.pending = {}
    /\ batch.todo # <<>> /\ Head(batch.todo) = c

\* One contributor's result, added to those before.
Report(responded, attempted, stored, calls) ==
    batch' = [batch EXCEPT !.todo = Tail(@),
                           !.responded = @ \/ responded,
                           !.attempted = @ + attempted,
                           !.stored = @ + stored,
                           !.calls = @ + calls]

\* _collect_callbacks: the turns cannot be read, there are too few of them,
\* the extraction fails, or it yields labels; only a label that is new in its
\* window is attempted, and stored.
CallbacksUnread ==
    /\ AtContributor("memory")
    /\ Report(FALSE, 0, 0, 0)
    /\ UNCHANGED <<now, up, collecting, retryAfter, lastCollect, table, healthyAt, sickAt>>
CallbacksTooFew ==
    /\ AtContributor("memory")
    /\ Report(TRUE, 0, 0, 0)
    /\ UNCHANGED <<now, up, collecting, retryAfter, lastCollect, table, healthyAt, sickAt>>
CallbacksFail ==
    /\ AtContributor("memory")
    /\ Report(TRUE, 1, 0, 1)
    /\ UNCHANGED <<now, up, collecting, retryAfter, lastCollect, table, healthyAt, sickAt>>
CallbacksFoundUncounted(labels) ==
    /\ AtContributor("memory")
    /\ LET new == {CallbackKey(l) : l \in labels} \ table
       IN  /\ Report(TRUE, 0, Cardinality(new), 1)
           /\ table' = table \cup new
    /\ UNCHANGED <<now, up, collecting, retryAfter, lastCollect, healthyAt, sickAt>>
CallbacksFound(labels) ==
    /\ AtContributor("memory")
    /\ LET new == {CallbackKey(l) : l \in labels} \ table
       IN  /\ Report(TRUE, Cardinality(new), Cardinality(new), 1)
           /\ table' = table \cup new
    /\ UNCHANGED <<now, up, collecting, retryAfter, lastCollect, healthyAt, sickAt>>

\* _collect_source: the source raises, or RssSource itself swallows a failure
\* and lists nothing, or it lists articles, of which the first few unknown
\* ones go on to the summariser.
SourceRaises(s) ==
    /\ AtContributor(s)
    /\ Report(FALSE, 0, 0, 0)
    /\ UNCHANGED <<now, up, collecting, retryAfter, lastCollect, table, healthyAt, sickAt>>
SourceUnreachable(s) ==
    /\ AtContributor(s)
    /\ Report(TRUE, 0, 0, 0)
    /\ UNCHANGED <<now, up, collecting, retryAfter, lastCollect, table, healthyAt, sickAt>>

\* The loop adds an article before it compares: with a maximum of 0 it takes one.
MostTaken == IF MaxItems = 0 THEN 1 ELSE MaxItems

FirstUnknown(listed) ==
    LET unknown == listed \ table
    IN  {few \in SUBSET unknown :
            Cardinality(few) = IF Cardinality(unknown) < MostTaken
                               THEN Cardinality(unknown) ELSE MostTaken}
SourceLists(s, listed) ==
    /\ AtContributor(s)
    /\ \E pending \in FirstUnknown(listed) :
          batch' = [batch EXCEPT !.todo = Tail(@), !.pending = pending, !.responded = TRUE,
                                 !.attempted = @ + Cardinality(pending)]
    /\ UNCHANGED <<now, up, collecting, retryAfter, lastCollect, table, healthyAt, sickAt>>

\* summarize_item: a failed or empty summary skips the article.
Summarised(key) ==
    /\ collecting /\ key \in batch.pending
    /\ table' = table \cup {key}
    /\ batch' = [batch EXCEPT !.pending = @ \ {key}, !.calls = @ + 1,
                              !.stored = IF key \in table THEN @ ELSE @ + 1]
    /\ UNCHANGED <<now, up, collecting, retryAfter, lastCollect, healthyAt, sickAt>>
SummaryFails(key) ==
    /\ collecting /\ key \in batch.pending
    /\ batch' = [batch EXCEPT !.pending = @ \ {key}, !.calls = @ + 1]
    /\ UNCHANGED <<now, up, collecting, retryAfter, lastCollect, table, healthyAt, sickAt>>

----------------------------------------------------------------------------
(* The end of the batch.                                                   *)

\* _is_healthy; there is always a contributor.
IsHealthy == batch.responded /\ (batch.attempted = 0 \/ batch.stored > 0)

Done == collecting /\ batch.todo = <<>> /\ batch.pending = {}
EndInMemory ==
    /\ Done /\ IsHealthy
    /\ collecting' = FALSE /\ batch' = NoBatch
    /\ retryAfter' = batch.at + Interval
    /\ healthyAt' = batch.at /\ sickAt' = Never
    /\ UNCHANGED <<now, up, lastCollect, table>>
EndHealthy ==
    /\ Done /\ IsHealthy
    /\ collecting' = FALSE /\ batch' = NoBatch
    /\ lastCollect' = batch.at
    /\ retryAfter' = Never
    /\ healthyAt' = batch.at /\ sickAt' = Never
    /\ UNCHANGED <<now, up, table>>
EndSick ==
    /\ Done /\ ~IsHealthy
    /\ collecting' = FALSE /\ batch' = NoBatch
    /\ retryAfter' = batch.at + Backoff
    /\ sickAt' = batch.at
    /\ UNCHANGED <<now, up, lastCollect, table, healthyAt>>

\* A statement on the database raises: the flag is reset in the finally, the
\* task swallows the exception, and nothing else is recorded.
AbortKeepingFlag ==
    /\ collecting
    /\ collecting' = collecting /\ batch' = [NoBatch EXCEPT !.todo = <<"nobody">>]
    /\ UNCHANGED <<now, up, retryAfter, lastCollect, table, healthyAt, sickAt>>
Abort ==
    /\ collecting
    /\ collecting' = FALSE /\ batch' = NoBatch
    /\ UNCHANGED <<now, up, retryAfter, lastCollect, table, healthyAt, sickAt>>

Crash ==
    /\ up
    /\ up' = FALSE
    /\ collecting' = FALSE /\ batch' = NoBatch
    /\ retryAfter' = Never /\ sickAt' = Never
    /\ UNCHANGED <<now, lastCollect, table, healthyAt>>
Restart ==
    /\ ~up
    /\ up' = TRUE
    /\ UNCHANGED <<now, collecting, batch, retryAfter, lastCollect, table, healthyAt, sickAt>>
TimePasses ==
    /\ now < LastTime
    /\ now' = now + 1
    /\ UNCHANGED <<up, collecting, batch, retryAfter, lastCollect, table, healthyAt, sickAt>>

AskContributor ==
    \/ CallbacksUnread \/ CallbacksTooFew \/ CallbacksFail
    \/ \E labels \in SUBSET Labels : CallbacksFound(labels)
    \/ \E s \in DOMAIN Articles :
          \/ SourceRaises(s) \/ SourceUnreachable(s)
          \/ \E listed \in SUBSET ArticleKeys(s) : SourceLists(s, listed)
    \/ \E key \in AllArticles : Summarised(key) \/ SummaryFails(key)

FeedNext ==
    \/ MaybeCollect
    \/ AskContributor
    \/ EndHealthy \/ EndSick
    \/ Abort
    \/ Crash \/ Restart
    \/ TimePasses

\* Fetches have a timeout and the summariser answers or fails in the end.
FeedSpec ==
    /\ FeedInit /\ [][FeedNext]_feedVars
    /\ WF_feedVars(AskContributor) /\ WF_feedVars(EndHealthy \/ EndSick)

----------------------------------------------------------------------------
(* Properties.                                                             *)

\* The variables hold what collect.py and the tables put in them; no batch
\* is under way unless the flag says so; and "so that the calls do not run
\* away" one batch makes at most one call for callbacks and MaxItems for each
\* source (one if that is 0).
FeedTypeOK ==
    /\ now \in 0 .. LastTime /\ up \in BOOLEAN /\ collecting \in BOOLEAN
    /\ ~collecting => batch = NoBatch
    /\ collecting => up
    /\ batch.at \in 0 .. now
    /\ batch.pending \subseteq AllArticles
    /\ batch.stored \in 0 .. batch.attempted
    /\ batch.calls \in 0 .. 1 + MostTaken * Len(Sources)
    /\ {retryAfter, lastCollect, healthyAt, sickAt} \subseteq Int \cup {Never}
    /\ table \subseteq AllArticles \cup ({"memory"} \X Labels \X Nat)

\* After a healthy batch the next one begins a whole interval later at the
\* earliest, over crashes and restarts, aborted batches and unhealthy ones; and
\* one that got nowhere is not repeated at every tick: as long as the process
\* lives the next waits for the backoff.
Spaced ==
    /\ (collecting /\ healthyAt # Never) => batch.at - healthyAt >= Interval
    /\ (collecting /\ sickAt # Never) => batch.at - sickAt >= Backoff

\* A batch always ends, so the flag never blocks the feed for good.
BatchEnds == collecting ~> ~collecting
=============================================================================
