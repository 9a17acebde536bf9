-------------------------- MODULE LiveBoardProofs --------------------------
(***************************************************************************)
(* Proofs about the limiter and the board page, for every capacity, rate   *)
(* and price, every setting of the clock and any number of messages and    *)
(* fetches under way.                                                      *)
(***************************************************************************)
EXTENDS LiveBoard, SequenceTheorems, TLAPS

\* What is in the bucket, what was taken from it and what the next refill is
\* due are covered by the capacity and the time that went by.
BucketInv ==
  /\ now \in Int /\ last \in Int
  /\ tokens \in 0..Capacity
  /\ spent \in Nat /\ forward \in Nat
  /\ tokens + spent + Rate * Positive(now - last) <= Capacity + Rate * forward

Fetching == [from : Nat, newest : BOOLEAN]

PageTypeOK ==
  /\ stored \in Nat
  /\ conn \in {"new", "subscribed", "open", "lost"}
  /\ pipe \in Seq(Kind)
  /\ handle \in BOOLEAN /\ timers \in Nat
  /\ flying \in Seq(Fetching)
  /\ shown \in [List -> Nat]
  /\ missed \in BOOLEAN /\ failed \in BOOLEAN /\ overtaken \in BOOLEAN /\ complained \in BOOLEAN

\* At most one fetch is the newest.
OneNewest == \A i, k \in DOMAIN flying : flying[i].newest /\ flying[k].newest => i = k

NewestFlies == \E i \in DOMAIN flying : flying[i].newest
NewestIsFresh == \E i \in DOMAIN flying : flying[i].newest /\ flying[i].from = stored

\* What is stored and not shown is on its way: a message or a fetch will
\* bring it, or one of the three excuses tells why not.
OnItsWay ==
  \/ missed \/ failed \/ overtaken
  \/ pipe # <<>>
  \/ NewestIsFresh
  \/ Current /\ ~ NewestFlies

PageInv == PageTypeOK /\ OneNewest /\ OnItsWay /\ OnePoller
SafeSpec == Init /\ [][Next]_vars
----------------------------------------------------------------------------
\* The operators of the limiter on integers.
LEMMA PositiveBounds ==
  ASSUME NEW a \in Int, NEW b \in Int
  PROVE  /\ Positive(a) \in Nat
         /\ Positive(a + b) <= Positive(a) + Positive(b)
BY DEF Positive

\* A refill is the rate times the time, and no time brings more than more time.
LEMMA RateIsLinear ==
  ASSUME NEW a \in Nat, NEW b \in Nat, NEW c \in Nat, c <= a + b
  PROVE  Rate * c \in Nat /\ Rate * a \in Nat /\ Rate * b \in Nat
         /\ Rate * (a + b) = Rate * a + Rate * b
         /\ Rate * c <= Rate * a + Rate * b
<1> USE TokenBucketAssumption
<1>1. PICK d \in Nat : a + b = c + d
  <2>1. a + b - c \in Nat /\ a + b = c + (a + b - c)
    OBVIOUS
  <2>2. QED
    BY <2>1
<1>2. Rate * (a + b) = Rate * a + Rate * b /\ Rate * (c + d) = Rate * c + Rate * d
  BY SMT
<1>3. Rate * a \in Nat /\ Rate * b \in Nat /\ Rate * c \in Nat /\ Rate * d \in Nat
  BY SMT
<1>4. QED
  BY <1>1, <1>2, <1>3

LEMMA TakeKeepsBucket ==
  ASSUME BucketInv, Take
  PROVE  BucketInv'
<1> USE TokenBucketAssumption DEF BucketInv, Take
<1> DEFINE due == Rate * Positive(now - last)
<1>1. Positive(now - last) \in Nat /\ due \in Nat /\ Rate * forward \in Nat
  BY PositiveBounds, RateIsLinear DEF Positive
<1>2. Refilled \in 0..Capacity /\ Refilled <= tokens + due
  BY <1>1 DEF Refilled, AtMost
<1>3. Rate * Positive(now' - last') = 0
  BY DEF Positive
<1>4. tokens' \in 0..Capacity /\ spent' \in Nat /\ tokens' + spent' <= tokens + due + spent
  BY <1>1, <1>2 DEF Allowed
<1>5. QED
  BY <1>1, <1>3, <1>4

LEMMA ClockKeepsBucket ==
  ASSUME BucketInv, NEW t \in Int, Clock(t)
  PROVE  BucketInv'
<1> USE TokenBucketAssumption DEF BucketInv, Clock
<1>1. Positive(t - last) <= Positive(now - last) + Positive(t - now)
  BY DEF Positive
<1>2. /\ Positive(t - last) \in Nat /\ Positive(now - last) \in Nat
      /\ Positive(t - now) \in Nat
  BY DEF Positive
<1>3. /\ Rate * Positive(t - last) <= Rate * Positive(now - last) + Rate * Positive(t - now)
      /\ Rate * Positive(t - last) \in Nat /\ Rate * Positive(now - last) \in Nat
      /\ Rate * Positive(t - now) \in Nat
  BY <1>1, <1>2, RateIsLinear
<1>4. /\ Rate * (forward + Positive(t - now)) = Rate * forward + Rate * Positive(t - now)
      /\ Rate * forward \in Nat
  BY <1>2, RateIsLinear
<1>5. QED
  BY <1>2, <1>3, <1>4

\* Every step of the page's system takes, moves the clock, or leaves the
\* bucket alone.
LEMMA StepKeepsBucket ==
  ASSUME BucketInv, [Next]_vars
  PROVE  BucketInv'
<1>1. CASE Refuse \/ Reject \/ \E kind \in Kind : Store(kind)
  BY <1>1, TakeKeepsBucket DEF Refuse, Reject, Store
<1>2. CASE \E t \in 0..MaxNow : PassTime(t)
  BY <1>2, LiveBoardAssumption, ClockKeepsBucket DEF PassTime
<1>3. CASE UNCHANGED bucketVars
  BY <1>3 DEF bucketVars, BucketInv
<1>4. QED
  BY <1>1, <1>2, <1>3
  DEF Next, vars, Subscribe, Open, Break, Dispatch, Poll, Act, Finish, Fail

LEMMA InitBucket == Init => BucketInv
<1> SUFFICES ASSUME Init PROVE BucketInv
  OBVIOUS
<1> USE TokenBucketAssumption DEF Init, BucketInit
<1>1. Positive(now - last) = 0
  BY DEF Positive
<1>2. Rate * 0 = 0
  OBVIOUS
<1>3. QED
  BY <1>1, <1>2 DEF BucketInv

LEMMA BucketInvAlways == SafeSpec => []BucketInv
BY InitBucket, StepKeepsBucket, PTL DEF SafeSpec

\* What the endpoint lets through never exceeds a full bucket and the refill
\* of the time that went by, wherever the clock was set back in between: each
\* setting may count time twice, but never time that did not pass.
THEOREM RateAlwaysBounded == SafeSpec => []RateBounded
<1>1. BucketInv => RateBounded
  <2> SUFFICES ASSUME BucketInv PROVE RateBounded
    OBVIOUS
  <2>1. Rate * Positive(now - last) \in Nat /\ Rate * forward \in Nat
    BY TokenBucketAssumption, RateIsLinear DEF BucketInv, Positive
  <2>2. QED
    BY <2>1, TokenBucketAssumption DEF BucketInv, RateBounded
<1>2. QED
  BY <1>1, BucketInvAlways, PTL
----------------------------------------------------------------------------
\* A sequence without its i-th element.
LEMMA RemoveAtProperties ==
  ASSUME NEW S, NEW s \in Seq(S), NEW i \in 1..Len(s)
  PROVE  /\ RemoveAt(s, i) \in Seq(S)
         /\ Len(RemoveAt(s, i)) = Len(s) - 1
         /\ \A k \in 1..(Len(s) - 1) : RemoveAt(s, i)[k] = IF k < i THEN s[k] ELSE s[k + 1]
<1> DEFINE front == SubSeq(s, 1, i - 1)
           back == SubSeq(s, i + 1, Len(s))
<1>1. /\ front \in Seq(S) /\ Len(front) = i - 1
      /\ \A k \in 1..(i - 1) : front[k] = s[k]
  <2>1. \A k \in 1..(i - 1) : s[k] \in S
    OBVIOUS
  <2>2. QED
    BY <2>1, SubSeqProperties
<1>2. /\ back \in Seq(S) /\ Len(back) = Len(s) - i
      /\ \A k \in 1..(Len(s) - i) : back[k] = s[k + i]
  <2>1. \A k \in (i + 1)..Len(s) : s[k] \in S
    OBVIOUS
  <2>2. QED
    BY <2>1, SubSeqProperties
<1> HIDE DEF front, back
<1>3. /\ front \o back \in Seq(S)
      /\ Len(front \o back) = Len(front) + Len(back)
      /\ \A k \in 1..(Len(front) + Len(back)) :
           (front \o back)[k] = IF k <= Len(front) THEN front[k] ELSE back[k - Len(front)]
  BY <1>1, <1>2, ConcatProperties
<1>4. Len(s) \in Nat /\ Len(front) + Len(back) = Len(s) - 1
  BY <1>1, <1>2
<1>5. RemoveAt(s, i) = front \o back
  BY DEF RemoveAt, front, back
<1>6. ASSUME NEW k \in 1..(Len(s) - 1)
      PROVE  (front \o back)[k] = IF k < i THEN s[k] ELSE s[k + 1]
  <2>1. CASE k < i
    <3>1. k \in 1..(i - 1) /\ k <= Len(front) /\ k \in 1..(Len(front) + Len(back))
      BY <1>1, <1>4, <2>1
    <3>2. QED
      BY <1>1, <1>3, <2>1, <3>1
  <2>2. CASE ~ (k < i)
    <3>1. /\ k - (i - 1) \in 1..(Len(s) - i) /\ k \in 1..(Len(front) + Len(back))
          /\ ~ (k <= Len(front)) /\ k - (i - 1) + i = k + 1
      BY <1>1, <1>4, <2>2
    <3>2. (front \o back)[k] = back[k - (i - 1)]
      BY <1>1, <1>3, <3>1
    <3>3. back[k - (i - 1)] = s[k - (i - 1) + i]
      BY <1>2, <3>1
    <3>4. QED
      BY <2>2, <3>1, <3>2, <3>3
  <2>3. QED
    BY <2>1, <2>2
<1>7. QED
  BY <1>3, <1>4, <1>5, <1>6

\* A refresh that begins is the newest, and asks for all that is stored.
LEMMA RefreshBegins ==
  ASSUME PageTypeOK, Refresh
  PROVE  flying' \in Seq(Fetching) /\ OneNewest' /\ NewestIsFresh'
<1> DEFINE older == [i \in DOMAIN flying |-> [flying[i] EXCEPT !.newest = FALSE]]
           new == [from |-> stored, newest |-> TRUE]
<1>1. /\ older \in Seq(Fetching) /\ Len(older) = Len(flying)
      /\ \A i \in 1..Len(flying) : ~ older[i].newest
  <2>1. flying \in Seq(Fetching) /\ DOMAIN flying = 1..Len(flying) /\ Len(flying) \in Nat
    BY DEF PageTypeOK
  <2>2. \A i \in 1..Len(flying) : older[i] \in Fetching /\ ~ older[i].newest
    <3>1. \A fetch \in Fetching : [fetch EXCEPT !.newest = FALSE] \in Fetching
      BY Zenon DEF Fetching
    <3>2. \A fetch \in Fetching : ~ [fetch EXCEPT !.newest = FALSE].newest
      BY DEF Fetching
    <3>3. \A i \in 1..Len(flying) : flying[i] \in Fetching
      BY <2>1
    <3>4. QED
      BY <2>1, <3>1, <3>2, <3>3
  <2>3. older \in [1..Len(flying) -> Fetching]
    BY <2>1, <2>2
  <2>4. QED
    BY <2>1, <2>2, <2>3
<1>2. new \in Fetching /\ new.newest /\ new.from = stored
  BY DEF PageTypeOK, Fetching
<1>3. flying' = Append(older, new) /\ stored' = stored
  BY DEF Refresh
<1> HIDE DEF older, new
<1>4. /\ flying' \in Seq(Fetching) /\ Len(flying') = Len(older) + 1
      /\ flying'[Len(older) + 1] = new
      /\ \A i \in 1..Len(older) : flying'[i] = older[i]
  BY <1>1, <1>2, <1>3
<1>5. Len(older) \in Nat /\ DOMAIN flying' = 1..(Len(older) + 1)
  BY <1>1, <1>4
<1>6. \A i \in DOMAIN flying' : flying'[i].newest <=> i = Len(older) + 1
  BY <1>1, <1>2, <1>4, <1>5
<1>7. QED
  BY <1>2, <1>3, <1>4, <1>5, <1>6 DEF OneNewest, NewestIsFresh

\* A refresh that ends leaves the others as they were.
LEMMA RefreshEnds ==
  ASSUME PageTypeOK, OneNewest, NEW i \in DOMAIN flying,
         flying' = RemoveAt(flying, i), stored' = stored
  PROVE  /\ flying' \in Seq(Fetching) /\ OneNewest'
         /\ NewestIsFresh /\ ~ flying[i].newest => NewestIsFresh'
         /\ ~ NewestFlies \/ flying[i].newest => ~ NewestFlies'
<1>1. flying \in Seq(Fetching) /\ i \in 1..Len(flying)
  BY DEF PageTypeOK
<1>2. /\ flying' \in Seq(Fetching) /\ Len(flying') = Len(flying) - 1
      /\ \A k \in 1..(Len(flying) - 1) : flying'[k] = IF k < i THEN flying[k] ELSE flying[k + 1]
  BY <1>1, RemoveAtProperties
<1>3. DOMAIN flying' = 1..(Len(flying) - 1) /\ DOMAIN flying = 1..Len(flying) /\ Len(flying) \in Nat
  BY <1>1, <1>2
<1> DEFINE old(k) == IF k < i THEN k ELSE k + 1
<1>4. \A k \in DOMAIN flying' : old(k) \in DOMAIN flying \ {i} /\ flying'[k] = flying[old(k)]
  BY <1>1, <1>2, <1>3
<1>5. \A k, l \in DOMAIN flying' : old(k) = old(l) => k = l
  BY <1>1, <1>3
<1>6. OneNewest'
  BY <1>4, <1>5 DEF OneNewest
<1>7. ASSUME NewestIsFresh, ~ flying[i].newest PROVE NewestIsFresh'
  <2>1. PICK k \in DOMAIN flying : flying[k].newest /\ flying[k].from = stored
    BY <1>7 DEF NewestIsFresh
  <2>2. k # i
    BY <1>7, <2>1
  <2> DEFINE l == IF k < i THEN k ELSE k - 1
  <2>3. l \in DOMAIN flying' /\ old(l) = k
    BY <1>1, <1>3, <2>1, <2>2
  <2>4. QED
    BY <1>4, <2>1, <2>3 DEF NewestIsFresh
<1>8. ASSUME ~ NewestFlies \/ flying[i].newest PROVE ~ NewestFlies'
  BY <1>4, <1>8 DEF NewestFlies, OneNewest
<1>9. QED
  BY <1>2, <1>6, <1>7, <1>8
----------------------------------------------------------------------------
\* The server's steps.
LEMMA StoreInv ==
  ASSUME PageInv, NEW kind \in Kind, Store(kind)
  PROVE  PageInv'
<1> USE DEF PageInv
<1>1. PageTypeOK' /\ OneNewest' /\ OnePoller'
  <2>1. pipe' \in Seq(Kind) /\ stored' \in Nat
    BY DEF Store, PageTypeOK
  <2>2. missed' \in BOOLEAN
    BY DEF Store, PageTypeOK
  <2>3. UNCHANGED <<conn, handle, timers, flying, shown, failed, overtaken, complained>>
    BY DEF Store, poller, fetches
  <2>4. QED
    BY <2>1, <2>2, <2>3 DEF PageTypeOK, OneNewest, OnePoller
<1>2. missed' \/ pipe' # <<>>
  BY DEF Store, PageTypeOK
<1>3. QED
  BY <1>1, <1>2 DEF OnItsWay

LEMMA ServerInv ==
  ASSUME PageInv, (\E t \in 0..MaxNow : PassTime(t)) \/ Refuse \/ Reject
  PROVE  PageInv'
BY DEF PageInv, PassTime, Refuse, Reject, PageTypeOK, OneNewest, OnePoller, OnItsWay, Current,
       NewestFlies, NewestIsFresh, stream, page, poller, fetches, excuses

\* What a stream that opens does to the fetches is nothing.
LEMMA StreamInv ==
  ASSUME PageInv, Subscribe \/ Open
  PROVE  PageInv'
<1> USE DEF PageInv, stream, page, poller, fetches, excuses
<1>1. PageTypeOK'
  <2>1. UNCHANGED <<stored, flying, shown, failed, overtaken>>
    BY DEF Subscribe, Open
  <2>2. conn' \in {"new", "subscribed", "open", "lost"} /\ pipe' \in Seq(Kind)
    BY EmptySeq DEF PageTypeOK, Subscribe, Open
  <2>3. timers' \in Nat
    BY DEF PageTypeOK, OnePoller, Subscribe, Open
  <2>4. handle' \in BOOLEAN /\ missed' \in BOOLEAN /\ complained' \in BOOLEAN
    BY DEF PageTypeOK, Subscribe, Open
  <2>5. QED
    BY <2>1, <2>2, <2>3, <2>4 DEF PageTypeOK
<1>2. OnePoller'
  BY DEF PageTypeOK, OnePoller, Subscribe, Open
<1>3. OneNewest' /\ (NewestFlies' <=> NewestFlies) /\ (NewestIsFresh' <=> NewestIsFresh)
      /\ (Current' <=> Current)
  BY DEF OneNewest, NewestFlies, NewestIsFresh, Current, Subscribe, Open
<1>4. OnItsWay'
  BY <1>3 DEF OnItsWay, Subscribe, Open
<1>5. QED
  BY <1>1, <1>2, <1>3, <1>4

\* Whatever makes the page fetch again, what is stored is on its way then.
LEMMA RefreshInv ==
  ASSUME PageInv, Break \/ Dispatch \/ Poll \/ Act
  PROVE  PageInv'
<1> USE DEF PageInv
<1>1. Refresh
  BY DEF Break, Dispatch, Poll, Act
<1>2. flying' \in Seq(Fetching) /\ OneNewest' /\ NewestIsFresh'
  BY <1>1, RefreshBegins
<1>3. OnePoller'
  BY DEF PageTypeOK, OnePoller, Break, Dispatch, Poll, Act, OnError, stream, poller
<1>4. pipe' \in Seq(Kind)
  <2>1. pipe \in Seq(Kind)
    BY DEF PageTypeOK
  <2>2. \/ pipe # <<>> /\ pipe' = Tail(pipe)
        \/ pipe' = pipe
        \/ pipe' = <<>>
    BY DEF Break, Dispatch, Poll, Act, stream
  <2>3. QED
    BY <2>1, <2>2, HeadTailProperties, EmptySeq
<1>5. PageTypeOK'
  <2>1. stored' = stored /\ shown' = shown /\ ~ missed' /\ ~ failed' /\ ~ overtaken'
    BY <1>1 DEF Refresh
  <2>2. missed' \in BOOLEAN /\ failed' \in BOOLEAN /\ overtaken' \in BOOLEAN
    BY <1>1 DEF Refresh
  <2>3. conn' \in {"new", "subscribed", "open", "lost"} /\ timers' \in Nat
    BY DEF PageTypeOK, Break, Dispatch, Poll, Act, OnError, stream, poller
  <2>4. handle' \in BOOLEAN /\ complained' \in BOOLEAN
    BY DEF PageTypeOK, Break, Dispatch, Poll, Act, OnError, stream, poller
  <2>5. QED
    BY <1>2, <1>4, <2>1, <2>2, <2>3, <2>4 DEF PageTypeOK
<1>6. QED
  BY <1>2, <1>3, <1>5 DEF OnItsWay

\* An answer shows what was stored when its fetch began, or more.
LEMMA FinishInv ==
  ASSUME PageInv, NEW i \in 1..MaxFlying, Finish(i)
  PROVE  PageInv'
<1> USE DEF PageInv
<1>1. i \in DOMAIN flying /\ flying' = RemoveAt(flying, i) /\ stored' = stored
  BY DEF Finish
<1>2. /\ flying' \in Seq(Fetching) /\ OneNewest'
      /\ NewestIsFresh /\ ~ flying[i].newest => NewestIsFresh'
      /\ ~ NewestFlies \/ flying[i].newest => ~ NewestFlies'
  BY <1>1, RefreshEnds
<1>3. flying[i].from \in Nat
  <2>1. flying[i] \in Fetching
    BY <1>1 DEF PageTypeOK
  <2>2. QED
    BY <2>1 DEF Fetching
<1>4. shown' \in [List -> Nat] /\ (flying[i].from = stored => Current')
  BY <1>1, <1>3 DEF Finish, PageTypeOK, Current
<1>5. PageTypeOK' /\ OnePoller'
  BY <1>2, <1>4 DEF Finish, PageTypeOK, OnePoller, stream, poller
<1>6. OnItsWay'
  <2>1. CASE flying[i].newest
    <3>1. NewestIsFresh => flying[i].from = stored
      BY <1>1, <2>1 DEF NewestIsFresh, OneNewest
    <3>2. NewestFlies
      BY <1>1, <2>1 DEF NewestFlies
    <3>3. QED
      BY <1>2, <1>4, <2>1, <3>1, <3>2 DEF OnItsWay, Finish, stream
  <2>2. CASE ~ flying[i].newest
    <3>1. ~ NewestFlies => overtaken'
      BY DEF NewestFlies, Finish
    <3>2. QED
      BY <1>2, <2>2, <3>1 DEF OnItsWay, Finish, stream
  <2>3. QED
    BY <2>1, <2>2
<1>7. QED
  BY <1>2, <1>5, <1>6

LEMMA FailInv ==
  ASSUME PageInv, NEW i \in 1..MaxFlying, Fail(i)
  PROVE  PageInv'
<1> USE DEF PageInv
<1>1. i \in DOMAIN flying /\ flying' = RemoveAt(flying, i) /\ stored' = stored
  BY DEF Fail
<1>2. /\ flying' \in Seq(Fetching) /\ OneNewest'
      /\ NewestIsFresh /\ ~ flying[i].newest => NewestIsFresh'
      /\ ~ NewestFlies \/ flying[i].newest => ~ NewestFlies'
  BY <1>1, RefreshEnds
<1>3. PageTypeOK' /\ OnePoller'
  <2>1. failed' \in BOOLEAN
    BY <1>1 DEF Fail, PageTypeOK
  <2>2. QED
    BY <1>2, <2>1 DEF Fail, PageTypeOK, OnePoller, stream, poller
<1>4. OnItsWay'
  BY <1>2 DEF OnItsWay, Fail, Current, stream
<1>5. QED
  BY <1>2, <1>3, <1>4
----------------------------------------------------------------------------
LEMMA InitPage == Init => PageInv
<1> SUFFICES ASSUME Init PROVE PageInv
  OBVIOUS
<1> USE DEF Init
<1>1. PageTypeOK
  BY EmptySeq DEF PageTypeOK
<1>2. OneNewest /\ OnePoller
  BY DEF OneNewest, OnePoller
<1>3. Current /\ ~ NewestFlies
  BY DEF Current, NewestFlies
<1>4. QED
  BY <1>1, <1>2, <1>3 DEF PageInv, OnItsWay

LEMMA PageInvAlways == SafeSpec => []PageInv
<1>1. ASSUME PageInv, [Next]_vars PROVE PageInv'
  <2>1. CASE UNCHANGED vars
    BY <1>1, <2>1
    DEF vars, PageInv, PageTypeOK, OneNewest, OnePoller, OnItsWay, Current, NewestFlies,
        NewestIsFresh, stream, page, poller, fetches, excuses
  <2>2. CASE Next
    BY <1>1, <2>2, StoreInv, ServerInv, StreamInv, RefreshInv, FinishInv, FailInv DEF Next
  <2>3. QED
    BY <1>1, <2>1, <2>2
<1>2. QED
  BY <1>1, InitPage, PTL DEF SafeSpec

\* Never two intervals and never one nobody can stop, in whatever order
\* streams open and break and events of the kind error arrive.
THEOREM OnePollerAlways == SafeSpec => []OnePoller
BY PageInvAlways, PTL DEF PageInv

\* While the stream is open and nothing is under way the page shows all that
\* is stored, what a broken connection lost included, but for the three things
\* onopen and refresh do not repair (index.astro:426-442).
THEOREM FreshWhenQuietAlways == SafeSpec => []FreshWhenQuiet
<1>1. PageInv => FreshWhenQuiet
  <2> SUFFICES ASSUME PageInv, flying = <<>>, pipe = <<>>, ~ missed, ~ failed, ~ overtaken
               PROVE  Current
    BY DEF FreshWhenQuiet
  <2>1. ~ NewestIsFresh
    BY DEF NewestIsFresh
  <2>2. QED
    BY <2>1 DEF PageInv, OnItsWay
<1>2. QED
  BY <1>1, PageInvAlways, PTL
============================================================================
