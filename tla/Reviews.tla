------------------------------- MODULE Reviews -------------------------------
(***************************************************************************)
(* The reviews of one product, their votes and the rating the product      *)
(* shows (reviews).                                                        *)
(*                                                                         *)
(* Moderation saves the status, then computes the rating in one statement  *)
(* and stores it on the product in another, without a lock.  The author's  *)
(* edit saves every column of the review as it was read, the vote counts   *)
(* and the status among them, and does not refresh the rating.  A vote     *)
(* checks the status first; the vote row and the counts then change in one *)
(* transaction under the lock of the review, which is one action here.     *)
(***************************************************************************)
EXTENDS Naturals, FiniteSets, Functions

CONSTANTS
    Authors,     \* customers with a delivered order; each has at most one review
    Ratings,
    Voters,
    MaxJobs,     \* bound on the requests, numbered as they arrive
    MaxAtOnce    \* bound on those at work at the same time

ASSUME ReviewAssumption ==
    /\ Ratings \subseteq 1..5 /\ {MaxJobs, MaxAtOnce} \subseteq Nat
    /\ IsFiniteSet(Authors) /\ IsFiniteSet(Voters)

VARIABLES
    review,      \* ProductReview rows
    votes,       \* ProductReviewVote rows
    shown,       \* avrage_rating and reviews_count of the product
    job,         \* requests
    stale,       \* requests that overlapped or failed may have left the rating behind
    miscounted   \* reviews whose vote counts an edit overwrote

reviewVars == <<review, votes, shown, job, stale, miscounted>>

Jobs == 1..MaxJobs
Verdicts == {"approved", "withheld"}      \* withheld is rejected or hidden
Counts == [helpful : Nat, not_helpful : Nat]
Review == [status : {"none", "pending"} \cup Verdicts, rating : Ratings \cup {0},
           counts : Counts]
NoCounts == [helpful |-> 0, not_helpful |-> 0]
NoReview == [status |-> "none", rating |-> 0, counts |-> NoCounts]
Stats == [count : Nat, average : 0..500]      \* in hundredths
Job == [op : {"new", "done", "delete", "edit", "form", "vote"} \cup Verdicts,
        step : {"", "save", "read", "store"},
        of : SUBSET Authors, row : Review, stats : Stats, alone : BOOLEAN]
NoStats == [count |-> 0, average |-> 0]
NewJob == [op |-> "new", step |-> "", of |-> {}, row |-> NoReview, stats |-> NoStats,
           alone |-> TRUE]
DoneJob == [NewJob EXCEPT !.op = "done"]
Working(j) == job[j].op \notin {"new", "done"}
Forms == {"edit", "form"}      \* requests that save a whole review
Edited(a) == \E k \in Jobs : job[k].op \in Forms /\ job[k].step = "save" /\ a \in job[k].of
Refreshing(j) == Working(j) /\ job[j].op \notin {"edit", "vote"}

\* Avg and Count over the approved reviews, rounded half up to two places.
Approved == {a \in Authors : review[a].status = "approved"}
Aggregate ==
    LET n == Cardinality(Approved)
        total == SumFunctionOnSet([a \in Authors |-> review[a].rating], Approved)
    IN  IF n = 0 THEN NoStats
        ELSE [count |-> n, average |-> (200 * total + n) \div (2 * n)]

\* summary: the stars are counted, the average is the stored one.
Summary == [shown EXCEPT !.count = SumFunction([s \in Ratings |->
                Cardinality({a \in Approved : review[a].rating = s})])]

CountVotes(a, v) ==
    [helpful     |-> Cardinality({u \in Voters : v[<<a, u>>] = "helpful"}),
     not_helpful |-> Cardinality({u \in Voters : v[<<a, u>>] = "not_helpful"})]

\* Some reviews have been approved already.
ReviewInit ==
    /\ \E rating \in [Authors -> Ratings], old \in SUBSET Authors :
           review = [a \in Authors |-> IF a \in old
                                     THEN [NoReview EXCEPT !.status = "approved",
                                                           !.rating = rating[a]]
                                     ELSE NoReview]
    /\ votes = [x \in Authors \X Voters |-> "none"]
    /\ shown = Aggregate
    /\ job = [j \in Jobs |-> NewJob]
    /\ stale = FALSE
    /\ miscounted = {}

-----------------------------------------------------------------------------
\* A request that refreshes the rating or edits a review is alone as long as no other
\* of these is at work.
Enters(j, request) ==
    /\ job[j] = NewJob /\ \A k \in Jobs : k < j => job[k] # NewJob
    /\ Cardinality({k \in Jobs : Working(k)}) < MaxAtOnce
    /\ LET others == {k \in Jobs : Working(k) /\ job[k].op # "vote"} IN
       job' = [k \in Jobs |->
                 CASE k = j -> [request EXCEPT !.alone = others = {}]
                   [] k \in others /\ request.op # "vote" -> [job[k] EXCEPT !.alone = FALSE]
                   [] OTHER -> job[k]]
    /\ UNCHANGED <<review, votes, shown, stale, miscounted>>
Ends(j) == job' = [job EXCEPT ![j] = DoneJob]
Step(j, step) == job' = [job EXCEPT ![j].step = step]

\* ProductReviewSerializer.create; the constraint allows one review per customer.
Submit(a, rating) ==
    /\ review[a].status = "none"
    /\ review' = [review EXCEPT ![a].status = "pending", ![a].rating = rating]
    /\ UNCHANGED <<votes, shown, job, stale, miscounted>>

\* approve, reject and hide of the API have no guard; the actions of the admin do the
\* same to several reviews.
Moderate(j, rs, verdict) ==
    /\ \A a \in rs : review[a].status # "none"
    /\ Enters(j, [NewJob EXCEPT !.op = verdict, !.step = "save", !.of = rs])

\* A review that is gone makes the save fail.
SaveVerdict(j, a) ==
    /\ job[j].op \in Verdicts /\ job[j].step = "save" /\ a \in job[j].of
    /\ IF review[a].status = "none"
       THEN UNCHANGED review /\ Ends(j) /\ stale' = TRUE
       ELSE /\ review' = [review EXCEPT ![a].status = job[j].op]
            /\ job' = [job EXCEPT ![j].of = @ \ {a},
                                  ![j].step = IF job[j].of = {a} THEN "read" ELSE "save"]
            /\ UNCHANGED stale
    /\ UNCHANGED <<votes, shown, miscounted>>

\* perform_destroy; the votes go with the review.
Delete(j, a) ==
    /\ review[a].status # "none"
    /\ Enters(j, [NewJob EXCEPT !.op = "delete", !.step = "save", !.of = {a}])

\* Mutant: the rating is not refreshed after a deletion.
MutSaveDeletion(j, a) ==
    /\ job[j].op = "delete" /\ job[j].step = "save" /\ a \in job[j].of
    /\ review' = [review EXCEPT ![a] = NoReview]
    /\ votes' = [x \in DOMAIN votes |-> IF x[1] = a THEN "none" ELSE votes[x]]
    /\ Ends(j)
    /\ miscounted' = IF Edited(a) THEN miscounted \cup {a} ELSE miscounted
    /\ UNCHANGED <<shown, stale>>

SaveDeletion(j, a) ==
    /\ job[j].op = "delete" /\ job[j].step = "save" /\ a \in job[j].of
    /\ review' = [review EXCEPT ![a] = NoReview]
    /\ votes' = [x \in DOMAIN votes |-> IF x[1] = a THEN "none" ELSE votes[x]]
    /\ Step(j, "read")
    /\ miscounted' = IF Edited(a) THEN miscounted \cup {a} ELSE miscounted
    /\ UNCHANGED <<shown, stale>>

\* update_product_review_stats
ReadStats(j) ==
    /\ Refreshing(j) /\ job[j].step = "read"
    /\ job' = [job EXCEPT ![j].stats = Aggregate, ![j].step = "store"]
    /\ UNCHANGED <<review, votes, shown, stale, miscounted>>

StoreStats(j) ==
    /\ Refreshing(j) /\ job[j].step = "store"
    /\ shown' = job[j].stats
    /\ stale' = ~job[j].alone
    /\ Ends(j)
    /\ UNCHANGED <<review, votes, miscounted>>

\* PUT and PATCH by the author, or by staff.
Edit(j, a, rating) ==
    /\ review[a].status # "none"
    /\ Enters(j, [NewJob EXCEPT !.op = "edit", !.step = "save", !.of = {a},
                                 !.row = [review[a] EXCEPT !.rating = rating]])

\* The admin's form of a review; save_model refreshes the rating afterwards.
EditForm(j, a, verdict) ==
    /\ review[a].status # "none"
    /\ Enters(j, [NewJob EXCEPT !.op = "form", !.step = "save", !.of = {a},
                                 !.row = [review[a] EXCEPT !.status = verdict]])

\* The full save inserts a row again that is gone.
SaveEdit(j, a) ==
    /\ job[j].op \in Forms /\ job[j].step = "save" /\ a \in job[j].of
    /\ review' = [review EXCEPT ![a] = job[j].row]
    /\ IF job[j].op = "edit" THEN Ends(j) /\ stale' = TRUE
                              ELSE Step(j, "read") /\ UNCHANGED stale
    /\ UNCHANGED <<votes, shown, miscounted>>

\* helpful and not_helpful: the author may not vote.
Vote(j, a) ==
    /\ review[a].status = "approved"
    /\ Enters(j, [NewJob EXCEPT !.op = "vote", !.step = "save", !.of = {a}])

\* set_review_vote after its checks; an edit at work has read other counts.
SaveVote(j, a, u, vote) ==
    /\ job[j].op = "vote" /\ a \in job[j].of
    /\ IF review[a].status = "none"
       THEN UNCHANGED <<review, votes, miscounted>>
       ELSE /\ votes' = [votes EXCEPT ![<<a, u>>] = vote]
            /\ review' = [review EXCEPT ![a].counts = CountVotes(a, votes')]
            /\ miscounted' = IF Edited(a) THEN miscounted \cup {a} ELSE miscounted \ {a}
    /\ Ends(j)
    /\ UNCHANGED <<shown, stale>>

\* A process is killed between two statements.
Killed(j) ==
    /\ Working(j)
    /\ stale' = (stale \/ Refreshing(j))
    /\ Ends(j)
    /\ UNCHANGED <<review, votes, shown, miscounted>>

ReviewNext ==
    \/ \E a \in Authors, rating \in Ratings : Submit(a, rating)
    \/ \E j \in Jobs :
           \/ \E rs \in SUBSET Authors \ {{}}, verdict \in Verdicts : Moderate(j, rs, verdict)
           \/ ReadStats(j) \/ StoreStats(j) \/ Killed(j)
           \/ \E a \in Authors :
                  \/ SaveVerdict(j, a) \/ SaveDeletion(j, a) \/ SaveEdit(j, a)
                  \/ Delete(j, a) \/ Vote(j, a)
                  \/ \E rating \in Ratings : Edit(j, a, rating)
                  \/ \E verdict \in Verdicts : EditForm(j, a, verdict)
                  \/ \E u \in Voters, vote \in {"helpful", "not_helpful"} :
                         SaveVote(j, a, u, vote)

ReviewSpec == ReviewInit /\ [][ReviewNext]_reviewVars

-----------------------------------------------------------------------------
ReviewTypeOK ==
    /\ review \in [Authors -> Review]
    /\ votes \in [Authors \X Voters -> {"none", "helpful", "not_helpful"}]
    /\ shown \in Stats
    /\ job \in [Jobs -> Job]
    /\ stale \in BOOLEAN
    /\ miscounted \subseteq Authors

\* When nobody is at work the product shows the rounded average and the number of the
\* approved reviews, the number its summary counts star by star; votes never change that, and any
\* refresh that ran alone makes good whatever overlapping ones, failures and edits of
\* ratings had left behind.
RatingIsAverage ==
    ~stale /\ (\A j \in Jobs : ~Refreshing(j)) => shown = Aggregate /\ Summary = shown

\* A review's counts are those of its vote rows, each user counted once however often
\* and at whatever moment the votes arrive; only an edit that was under way during a
\* vote, or around a deletion, puts old counts back, and the next vote corrects them.
CountsAreVotes ==
    \A a \in Authors \ miscounted : review[a].counts = CountVotes(a, votes)

\* What is stored because it was counted is what counting would give.
CountedIsStored == ReviewTypeOK /\ RatingIsAverage /\ CountsAreVotes
=============================================================================
