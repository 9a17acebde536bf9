----------------------------- MODULE LiveBoard -----------------------------
(***************************************************************************)
(* One board page and the server it watches: events that pass the limiter  *)
(* are stored and published to the page's stream; the page fetches what is *)
(* stored again for every message of the stream, and every two seconds     *)
(* when the stream is away.  A fetch takes its time, several may be under  *)
(* way, and their answers come in any order.  What is shown is abstracted  *)
(* to the number of events it takes into account, for the two lists that   *)
(* are fetched by requests of their own.                                   *)
(***************************************************************************)
EXTENDS TokenBucket, Sequences, SequencesExt

CONSTANTS
  MaxNow,      \* bound on the clock
  MaxForward,  \* bound on the time that passes
  MaxPipe,     \* bound on the messages under way
  MaxFlying,   \* bound on the fetches under way
  MaxFails     \* bound on the fetches that fail

ASSUME LiveBoardAssumption ==
  {MaxNow, MaxForward, MaxPipe, MaxFlying, MaxFails} \subseteq Nat

VARIABLES
  stored,    \* events in the database
  conn,      \* the EventSource and the handler of its request
  pipe,      \* messages sent and not yet dispatched, by kind of event
  handle,    \* pollTimer is set
  timers,    \* intervals that run
  flying,    \* refreshes under way, in the order of their start
  shown,     \* what the page shows
  fails,     \* how many refreshes failed
  missed,    \* history: published with no listener since a refresh began
  failed,    \* history: the newest refresh failed
  overtaken, \* history: an older refresh ended after the newest
  complained \* history: the stream carried an error event since it opened

stream == <<conn, pipe>>
poller == <<handle, timers>>
fetches == <<flying, shown, fails>>
excuses == <<missed, failed, overtaken>>
page == <<poller, fetches, excuses, complained>>
vars == <<bucketVars, stored, stream, page>>

Kind == {"error", "other"}
Listening == conn \in {"subscribed", "open"}
List == {"tasks", "events"}

Init ==
  /\ now = 0 /\ BucketInit
  /\ stored = 0 /\ conn = "new" /\ pipe = <<>>
  /\ handle = FALSE /\ timers = 0
  /\ flying = <<>> /\ shown = [part \in List |-> 0] /\ fails = 0
  /\ missed = FALSE /\ failed = FALSE /\ overtaken = FALSE /\ complained = FALSE
----------------------------------------------------------------------------
(* The server: POST /api/ingest and the bus.                               *)

PassTime(t) ==
  /\ t # now /\ forward + Positive(t - now) <= MaxForward
  /\ Clock(t)
  /\ UNCHANGED <<stored, stream, page>>

\* 429: nothing is sent again.
Refuse == ~Allowed /\ Take /\ UNCHANGED <<stored, stream, page>>

\* Past the limiter, and refused for its secret or its content.
Reject == Allowed /\ Take /\ UNCHANGED <<stored, stream, page>>

\* The transaction, then publish: to the page, if its handler listens.
Store(kind) ==
  /\ Allowed /\ Take
  /\ stored' = stored + 1
  /\ IF Listening
     THEN Len(pipe) < MaxPipe /\ pipe' = Append(pipe, kind) /\ UNCHANGED missed
     ELSE missed' = TRUE /\ UNCHANGED pipe
  /\ UNCHANGED <<conn, poller, fetches, failed, overtaken, complained>>
----------------------------------------------------------------------------
(* The page.                                                               *)

\* refresh(): three fetches, shown when all are answered.
Refresh ==
  /\ Len(flying) < MaxFlying
  /\ flying' = Append([i \in DOMAIN flying |-> [flying[i] EXCEPT !.newest = FALSE]],
                      [from |-> stored, newest |-> TRUE])
  /\ missed' = FALSE /\ failed' = FALSE /\ overtaken' = FALSE
  /\ UNCHANGED <<stored, shown, fails>>

\* Each list is as old as its own answer.
Finish(i) ==
  /\ i \in DOMAIN flying
  /\ shown' \in [List -> flying[i].from..stored]
  /\ flying' = RemoveAt(flying, i)
  /\ overtaken' = (overtaken \/ \A k \in DOMAIN flying : ~flying[k].newest)
  /\ UNCHANGED <<bucketVars, stored, stream, poller, fails, missed, failed, complained>>

\* One of the three raises, and nothing is shown.
Fail(i) ==
  /\ i \in DOMAIN flying /\ fails < MaxFails
  /\ fails' = fails + 1
  /\ flying' = RemoveAt(flying, i)
  /\ failed' = (failed \/ flying[i].newest)
  /\ UNCHANGED <<bucketVars, stored, stream, poller, shown, missed, overtaken, complained>>

OnErrorAgain ==  \* mutant: the listener does not ask for a timer that runs
  handle' = TRUE /\ timers' = timers + 1

\* The listener that starts polling, for the stream's own errors and for
\* events of the kind error; the other listener for both is refresh().
OnError ==
  /\ handle' = TRUE
  /\ timers' = IF handle THEN timers ELSE timers + 1

\* The handler of the stream's request starts, and subscribes.
Subscribe ==
  /\ conn \in {"new", "lost"}
  /\ conn' = "subscribed"
  /\ UNCHANGED <<bucketVars, stored, pipe, page>>

\* onopen: stopPolling, and no refresh.
Open ==
  /\ conn = "subscribed"
  /\ conn' = "open"
  /\ handle' = FALSE
  /\ timers' = IF handle THEN timers - 1 ELSE timers
  /\ complained' = FALSE
  /\ UNCHANGED <<bucketVars, stored, pipe, fetches, excuses>>

BreakUnfetched ==  \* mutant: refresh() does not listen for errors
  /\ conn # "lost"
  /\ conn' = "lost" /\ pipe' = <<>>
  /\ OnError
  /\ UNCHANGED <<bucketVars, stored, fetches, excuses, complained>>

\* The connection, or an attempt at one, fails: the handler is cancelled,
\* what it sent is not sent again, and the page, which is told, fetches.
Break ==
  /\ conn # "lost"
  /\ conn' = "lost" /\ pipe' = <<>>
  /\ OnError /\ Refresh
  /\ UNCHANGED <<bucketVars, complained>>

\* A message of the stream: whatever its kind a refresh, and for an event of
\* the kind error the listener above as well, as if the stream had failed.
Dispatch ==
  /\ conn = "open" /\ pipe # <<>>
  /\ pipe' = Tail(pipe)
  /\ Refresh
  /\ IF Head(pipe) = "error"
     THEN OnError /\ complained' = TRUE
     ELSE UNCHANGED <<poller, complained>>
  /\ UNCHANGED <<bucketVars, conn>>

PollOnce ==  \* mutant: a timeout in the place of the interval
  /\ timers > 0
  /\ Refresh
  /\ timers' = timers - 1
  /\ UNCHANGED <<bucketVars, stream, handle, complained>>

Poll ==
  /\ timers > 0
  /\ Refresh
  /\ UNCHANGED <<bucketVars, stream, poller, complained>>

\* The form or an approval was sent.
Act == Refresh /\ UNCHANGED <<bucketVars, stream, poller, complained>>
----------------------------------------------------------------------------
Next ==
  \/ \E t \in 0..MaxNow : PassTime(t)
  \/ Refuse \/ Reject \/ \E kind \in Kind : Store(kind)
  \/ Subscribe \/ Open \/ Break \/ Dispatch \/ Poll \/ Act
  \/ \E i \in 1..MaxFlying : Finish(i) \/ Fail(i)

\* An interval fires, a fetch is answered, an attempt to connect succeeds or
\* fails.  Nothing says that events are posted or that a stream breaks.
Fairness ==
  /\ WF_vars(Poll)
  /\ WF_vars(\E i \in 1..MaxFlying : Finish(i))
  /\ WF_vars(conn \in {"new", "subscribed"} /\ (Subscribe \/ Open \/ Break))

Spec == Init /\ [][Next]_vars /\ Fairness
----------------------------------------------------------------------------
Current == \A part \in List : shown[part] = stored

\* While the stream is open and nothing is under way the page shows all that
\* is stored, what was lost in a connection included, which the refresh of its
\* failure brings.  What onopen leaves unfetched excuses it (published while no
\* handler listened), and so does a newest refresh that failed, or one an older
\* refresh was shown after: none of the three is repaired before the next
\* message.
FreshWhenQuiet ==
  (conn = "open" /\ pipe = <<>> /\ flying = <<>>)
  => Current \/ missed \/ failed \/ overtaken

\* Never two intervals, and never one nobody can stop; one runs whenever the
\* stream is lost; while it is open one runs only after an event of the kind
\* error, which the page takes for a failure of the stream.
OnePoller ==
  /\ timers = IF handle THEN 1 ELSE 0
  /\ conn = "lost" => handle
  /\ conn = "open" /\ handle => complained

\* A page whose stream stays away shows everything in the end, whatever was
\* missed, failed or overtaken.
CatchesUp == <>[](conn # "open") => <>[]Current
============================================================================
