--------------------------- MODULE EventFeed_proofs ---------------------------
(***************************************************************************)
(* Proofs about EventFeed: a channel of any capacity, any set of open      *)
(* queries, any intervals, any number of changes and troubles.             *)
(***************************************************************************)
EXTENDS EventFeed, SequenceTheorems, TLAPS

\* The constants that are numbers.
LEMMA FeedNumbers ==
    /\ Capacity \in Nat /\ Capacity > 0
    /\ PingInterval \in Nat /\ PingInterval > 0
    /\ PongTimeout \in Nat /\ PongTimeout > 0 /\ PongTimeout <= PingInterval
    /\ MaxAttempts \in Nat /\ MaxTroubles \in Nat /\ MaxChanges \in Nat
BY FeedConstants

\* The kinds of events, one by one.
LEMMA KindsAre ==
    Kind = {"report_created", "report_updated", "job_created", "job_updated",
            "suites_available"}
BY DEF Kind, Affects

\* The client invalidates every query that the writer has made stale.
LEMMA InvalidatesEnough == \A k \in Kind : Affects[k] \subseteq Invalidates[k]
BY KindsAre DEF Affects, Invalidates

\* Events touch queries, whatever they are.
LEMMA TouchedQueries == \A events : Touched(events) \subseteq Query
BY DEF Touched

-----------------------------------------------------------------------------
(* Types *)

\* The types hold in the beginning,
LEMMA FeedTypeInit == FeedInit => FeedTypeOK
<1> SUFFICES ASSUME FeedInit PROVE FeedTypeOK
  OBVIOUS
<1>1. sent = <<>> /\ sent \in Seq(Kind) /\ Len(sent) = 0 /\ wire \in Seq(Kind)
  BY DEF FeedInit
<1>2. data \in [Query -> {NoData} \cup Nat] /\ absorbed \subseteq Query /\ changes \in 0..MaxChanges
  BY FeedNumbers DEF FeedInit, NoData
<1>3. {newest, blocked} \subseteq BOOLEAN /\ (newest => timers > 0) /\ timers \in Nat
  BY DEF FeedInit
<1>4. /\ socket \in {"none", "connecting", "open"}
      /\ status \in Loading \cup {"connected", "disconnected"}
  BY DEF FeedInit, Loading
<1> QED BY <1>1, <1>2, <1>3, <1>4, FeedNumbers
        DEF FeedInit, FeedTypeOK, Loading, NoPing, Asked, Idle

\* One attempt to open the socket keeps the types of what it writes.
LEMMA ConnectTypes ==
    ASSUME FeedTypeOK, NEW others \in Nat, NEW newer \in BOOLEAN, newer => others > 0,
           Connect(others, newer)
    PROVE  /\ socket' \in {"none", "connecting", "open"}
           /\ status' \in Loading \cup {"connected", "disconnected"}
           /\ shown' \in Loading \cup {"connected", "disconnected"}
           /\ timers' \in Nat /\ newest' \in BOOLEAN /\ (newest' => timers' > 0)
<1>1. /\ socket' \in {"none", "connecting", "open"}
      /\ status' \in Loading \cup {"connected", "disconnected"}
      /\ shown' \in Loading \cup {"connected", "disconnected"}
  BY DEF Connect, Schedule, SetStatus, FeedTypeOK, Loading
<1>2. /\ timers' \in Nat
      /\ (newest' = TRUE /\ timers' > 0) \/ (newest' = newer /\ timers' = others)
  BY DEF Connect, Schedule
<1>3. CASE newest' = TRUE /\ timers' > 0
  BY <1>1, <1>2, <1>3
<1>4. CASE newest' = newer /\ timers' = others
  BY <1>1, <1>2, <1>4
<1> QED BY <1>2, <1>3, <1>4

\* A closed socket leaves the status and the timers in their types.
LEMMA OnCloseTypes ==
    ASSUME FeedTypeOK, OnClose
    PROVE  /\ status' \in Loading \cup {"connected", "disconnected"}
           /\ shown' \in Loading \cup {"connected", "disconnected"}
           /\ timers' \in Nat /\ newest' \in BOOLEAN /\ (newest' => timers' > 0)
<1>1. /\ status' \in Loading \cup {"connected", "disconnected"}
      /\ shown' \in Loading \cup {"connected", "disconnected"}
  BY DEF OnClose, Schedule, SetStatus, FeedTypeOK, Loading
<1>2. /\ timers' \in Nat
      /\ (newest' = TRUE /\ timers' > 0) \/ (newest' = newest /\ timers' = timers)
  BY DEF OnClose, Schedule, FeedTypeOK
<1>3. newest \in BOOLEAN /\ (newest => timers > 0)
  BY DEF FeedTypeOK
<1>4. CASE newest' = TRUE /\ timers' > 0
  BY <1>1, <1>2, <1>4
<1>5. CASE newest' = newest /\ timers' = timers
  BY <1>1, <1>2, <1>3, <1>5
<1> QED BY <1>2, <1>4, <1>5

\* and every step keeps them.
LEMMA FeedTypeStep ==
    ASSUME FeedTypeOK, [FeedNext]_feedVars
    PROVE  FeedTypeOK'
<1> USE FeedNumbers
<1>1. CASE UNCHANGED feedVars
  BY <1>1 DEF FeedTypeOK, feedVars, feed, task, page, cache
<1>2. ASSUME NEW k \in Changes, Change(k) PROVE FeedTypeOK'
  <2>1. k \in Kind
    BY FeedConstants
  <2> QED BY <1>2, <2>1 DEF Change, FeedTypeOK, task, page, cache, NoData
<1>3. ASSUME NEW k \in Kind, Send(k) PROVE FeedTypeOK'
  <2>1. sent' \in Seq(Kind) /\ Len(sent') = Len(sent) + 1 /\ Len(sent) \in Nat
    BY <1>3, AppendProperties DEF Send, FeedTypeOK
  <2>2. unsent' \in [Kind -> Nat]
    BY <1>3 DEF Send, FeedTypeOK
  <2>3. cursor' \in 1..(Len(sent') + 1)
    BY <1>3, <2>1 DEF Send, FeedTypeOK, task
  <2> QED BY <1>3, <2>1, <2>2, <2>3 DEF Send, FeedTypeOK, task, page, cache
<1>4. CASE Upgrade
  BY <1>4 DEF Upgrade, FeedTypeOK, feed, page, cache
<1>5. CASE Subscribe
  <2>1. Len(sent) \in Nat
    BY DEF FeedTypeOK
  <2> QED BY <1>5, <2>1 DEF Subscribe, StopClock, FeedTypeOK, feed, page, cache, NoPing
<1>6. CASE Forward
  <2>1. Len(sent) \in Nat /\ cursor \in 1..Len(sent)
    BY <1>6 DEF Forward, FeedTypeOK, Oldest
  <2>2. sent[cursor] \in Kind
    BY <2>1, ElementOfSeq DEF FeedTypeOK
  <2>3. wire' \in Seq(Kind) /\ cursor' \in 1..(Len(sent') + 1)
    BY <1>6, <2>1, <2>2, AppendProperties DEF Forward, FeedTypeOK, feed
  <2> QED BY <1>6, <2>3 DEF Forward, FeedTypeOK, feed, page, cache
<1>7. CASE Lag
  <2>1. Len(sent) \in Nat
    BY DEF FeedTypeOK
  <2>2. cursor' \in 1..(Len(sent') + 1)
    BY <1>7, <2>1 DEF Lag, FeedTypeOK, Oldest, feed
  <2>3. missed' \subseteq Query
    BY <1>7, TouchedQueries DEF Lag, FeedTypeOK
  <2> QED BY <1>7, <2>2, <2>3 DEF Lag, FeedTypeOK, feed, page, cache
<1>8. CASE Tick
  <2>1. missed' \subseteq Query
    BY <1>8, TouchedQueries DEF Tick, EndTask, FeedTypeOK
  <2>2. UNCHANGED <<feed, cursor, wire, link, page, cache, troubles>>
    BY <1>8 DEF Tick, EndTask
  <2>3. /\ serving' \in {"none", "serving"} /\ silence' \in Nat /\ due' \in 0..PingInterval
        /\ ping' \in {NoPing} \cup 0..PongTimeout
    BY <1>8 DEF Tick, EndTask, StopClock, FeedTypeOK
  <2> QED BY <2>1, <2>2, <2>3 DEF FeedTypeOK, feed, page, cache
<1>9. CASE Pong
  BY <1>9 DEF Pong, FeedTypeOK, feed, page, cache, NoPing
<1>10. CASE TaskFails
  <2>1. missed' \subseteq Query
    BY <1>10, TouchedQueries DEF TaskFails, EndTask, FeedTypeOK
  <2> QED BY <1>10, <2>1 DEF TaskFails, EndTask, StopClock, FeedTypeOK, feed, page, cache, NoPing
<1>11. CASE Elapse
  BY <1>11 DEF Elapse, FeedTypeOK, feed, page, cache, NoPing
<1>12. CASE Open
  BY <1>12 DEF Open, SetStatus, FeedTypeOK, feed, task, cache, Loading
<1>13. CASE Disconnected
  <2>1. missed' \subseteq Query
    BY <1>13, TouchedQueries DEF Disconnected, FeedTypeOK
  <2>2. wire' \in Seq(Kind)
    BY <1>13 DEF Disconnected
  <2>3. OnClose
    BY <1>13 DEF Disconnected
  <2> QED BY <1>13, <2>1, <2>2, <2>3, OnCloseTypes
          DEF Disconnected, StopClock, FeedTypeOK, feed, cache, NoPing
<1>14. CASE Timer
  <2>1. PICK left \in BOOLEAN :
          /\ left => newest /\ timers > 1
          /\ IF socket = "none"
             THEN Connect(timers - 1, left)
             ELSE timers' = timers - 1 /\ newest' = left /\ UNCHANGED <<socket, status, shown>>
    BY <1>14 DEF Timer, Fire
  <2>2. timers - 1 \in Nat /\ (left => timers - 1 > 0)
    BY <1>14, <2>1 DEF Timer, FeedTypeOK
  <2>3. /\ socket' \in {"none", "connecting", "open"}
        /\ status' \in Loading \cup {"connected", "disconnected"}
        /\ shown' \in Loading \cup {"connected", "disconnected"}
        /\ timers' \in Nat /\ newest' \in BOOLEAN /\ (newest' => timers' > 0)
    <3>1. CASE socket = "none"
      BY <2>1, <2>2, <3>1, ConnectTypes
    <3>2. CASE socket # "none"
      BY <2>1, <2>2, <3>2 DEF FeedTypeOK
    <3> QED BY <3>1, <3>2
  <2>4. attempts' \in 0..(MaxAttempts + 1)
    BY <1>14 DEF Timer, FeedTypeOK
  <2> QED BY <1>14, <2>3, <2>4 DEF Timer, FeedTypeOK, feed, task, cache
<1>15. CASE ShowLoading
  BY <1>15 DEF ShowLoading, FeedTypeOK, feed, task, cache, Loading
<1>16. CASE LateClose
  <2>1. OnClose
    BY <1>16 DEF LateClose
  <2> QED BY <1>16, <2>1, OnCloseTypes DEF LateClose, FeedTypeOK, feed, task, cache
<1>17. CASE Message
  <2>1. wire' \in Seq(Kind)
    BY <1>17, HeadTailProperties DEF Message, Receive, FeedTypeOK
  <2>2. /\ fetch' \in [Query -> {Idle, Asked} \cup Nat] /\ missed' \subseteq Query
        /\ absorbed' \subseteq Query
    BY <1>17 DEF Message, Receive, Stale, FeedTypeOK
  <2> QED BY <1>17, <2>1, <2>2 DEF Message, Receive, FeedTypeOK, feed, task, page
<1>18. ASSUME NEW q \in Query, Answer(q) \/ Store(q) \/ FetchFails(q) \/ Refocus(q)
       PROVE  FeedTypeOK'
  <2>1. /\ fetch' \in [Query -> {Idle, Asked} \cup Nat] /\ missed' \subseteq Query
        /\ data' \in [Query -> {NoData} \cup Nat] /\ troubles' \in 0..MaxTroubles
        /\ absorbed' \subseteq Query
    <3>1. /\ version[q] \in Nat /\ fetch[q] \in {Idle, Asked} \cup Nat
          /\ fetch[q] >= 0 => fetch[q] \in Nat
      BY DEF FeedTypeOK, Idle, Asked
    <3>2. fetch' \in [Query -> {Idle, Asked} \cup Nat]
      BY <1>18, <3>1 DEF Answer, Store, FetchFails, Refocus, FeedTypeOK
    <3>3. missed' \subseteq Query
      BY <1>18 DEF Answer, Store, FetchFails, Refocus, FeedTypeOK
    <3>4. data' \in [Query -> {NoData} \cup Nat]
      BY <1>18, <3>1 DEF Answer, Store, FetchFails, Refocus, FeedTypeOK
    <3>5. troubles' \in 0..MaxTroubles
      BY <1>18 DEF Answer, Store, FetchFails, Refocus, FeedTypeOK
    <3>6. absorbed' \subseteq Query
      BY <1>18 DEF Answer, Store, FetchFails, Refocus, FeedTypeOK
    <3> QED BY <3>2, <3>3, <3>4, <3>5, <3>6
  <2>2. UNCHANGED <<feed, task, wire, link, page>>
    BY <1>18 DEF Answer, Store, FetchFails, Refocus
  <2> QED BY <2>1, <2>2 DEF FeedTypeOK, feed, task, page
<1>19. CASE Reconnect
  <2>1. missed' \subseteq Query
    BY <1>19, TouchedQueries DEF Reconnect, Restarted, FeedTypeOK
  <2>2. wire' \in Seq(Kind)
    BY <1>19 DEF Reconnect, Restarted
  <2>3. (IF newest THEN timers - 1 ELSE timers) \in Nat
    BY DEF FeedTypeOK
  <2>4. /\ socket' \in {"none", "connecting", "open"}
        /\ status' \in Loading \cup {"connected", "disconnected"}
        /\ shown' \in Loading \cup {"connected", "disconnected"}
        /\ timers' \in Nat /\ newest' \in BOOLEAN /\ (newest' => timers' > 0)
    BY <1>19, <2>3, ConnectTypes DEF Reconnect
  <2> QED BY <1>19, <2>1, <2>2, <2>4
          DEF Reconnect, Restarted, StopClock, FeedTypeOK, feed, cache, NoPing
<1>20. CASE Break
  BY <1>20 DEF Break, FeedTypeOK, feed, task, page, cache
<1>21. CASE Restart
  <2>1. missed' \subseteq Query
    BY <1>21, TouchedQueries DEF Restart, FeedTypeOK
  <2> QED BY <1>21, <2>1 DEF Restart, StopClock, FeedTypeOK, page, cache, NoPing
<1> QED BY <1>1, <1>2, <1>3, <1>4, <1>5, <1>6, <1>7, <1>8, <1>9, <1>10, <1>11, <1>12, <1>13,
           <1>14, <1>15, <1>16, <1>17, <1>18, <1>19, <1>20, <1>21
        DEF FeedNext, ServerStep, ClientStep, CacheStep

\* The variables of the feed keep their types.
THEOREM FeedTypeCorrect == FeedSpec => []FeedTypeOK
<1> QED BY FeedTypeInit, FeedTypeStep, PTL DEF FeedSpec

-----------------------------------------------------------------------------
(* Pings *)

\* The silence grows by what has passed of the interval, from at most what the
\* last tick let pass.
SilenceInv == serving = "serving" => silence <= 2 * PingInterval + PongTimeout - due

\* While the link is up, a ping is as old as the interval, and the silence began
\* in the interval before it.
LiveInv ==
    serving = "serving" /\ link = "up" =>
        \/ ping = NoPing /\ silence <= PingInterval - due
        \/ ping # NoPing /\ ping = PingInterval - due /\ silence <= PingInterval + ping

\* Steps that leave a connection's clock alone, or end it.
ClockKept ==
    \/ serving' # "serving"
    \/ /\ UNCHANGED <<serving, silence, due, ping>>
       /\ link' = "up" => link = "up"

\* Four kinds of steps move the clocks of a connection, all others leave them.
LEMMA ClockSteps ==
    ASSUME FeedTypeOK, [FeedNext]_feedVars
    PROVE  ClockKept \/ Subscribe \/ Tick \/ Pong \/ Elapse
<1>1. CASE UNCHANGED feedVars
  BY <1>1 DEF ClockKept, feedVars, task
<1>2. ASSUME NEW k \in Kind, Change(k) \/ Send(k) PROVE ClockKept
  BY <1>2 DEF Change, Send, ClockKept, task
<1>3. CASE Upgrade \/ Forward \/ Lag \/ TaskFails
  BY <1>3 DEF Upgrade, Forward, Lag, TaskFails, EndTask, ClockKept
<1>4. CASE Open \/ Disconnected \/ Timer \/ ShowLoading \/ LateClose \/ Message
  BY <1>4 DEF Open, Disconnected, Timer, ShowLoading, LateClose, Message, Receive, ClockKept,
              task
<1>5. ASSUME NEW q \in Query, Answer(q) \/ Store(q) \/ FetchFails(q) \/ Refocus(q)
      PROVE  ClockKept
  BY <1>5 DEF Answer, Store, FetchFails, Refocus, ClockKept, task
<1>6. CASE Reconnect \/ Break \/ Restart
  BY <1>6 DEF Reconnect, Restarted, Break, Restart, ClockKept, task
<1>7. Changes \subseteq Kind
  BY FeedConstants
<1> QED BY <1>1, <1>2, <1>3, <1>4, <1>5, <1>6, <1>7
        DEF FeedNext, ServerStep, ClientStep, CacheStep

\* The four steps keep the bound on the silence.
LEMMA SilenceStep ==
    ASSUME FeedTypeOK, SilenceInv, [FeedNext]_feedVars
    PROVE  SilenceInv'
<1> USE FeedNumbers
<1>1. silence \in Nat /\ due \in 0..PingInterval
  BY DEF FeedTypeOK
<1>2. CASE ClockKept
  BY <1>2 DEF ClockKept, SilenceInv
<1>3. CASE Subscribe
  BY <1>3 DEF Subscribe, StopClock, SilenceInv
<1>4. CASE Tick
  BY <1>1, <1>4 DEF Tick, EndTask, TimedOut, SilenceInv
<1>5. CASE Pong
  BY <1>1, <1>5 DEF Pong, SilenceInv
<1>6. CASE Elapse
  BY <1>1, <1>6 DEF Elapse, SilenceInv
<1> QED BY <1>2, <1>3, <1>4, <1>5, <1>6, ClockSteps

\* A connection whose client is gone is served for a bounded time.
THEOREM SilenceAlwaysBounded == FeedSpec => []SilenceBounded
<1>1. FeedInit => SilenceInv
  BY DEF FeedInit, SilenceInv
<1>2. FeedTypeOK /\ SilenceInv => SilenceBounded
  BY FeedNumbers DEF FeedTypeOK, SilenceInv, SilenceBounded
<1> QED BY <1>1, <1>2, SilenceStep, FeedTypeCorrect, PTL DEF FeedSpec

\* They also keep the answer of a live client ahead of the next ping.
LEMMA LiveStep ==
    ASSUME PongTimeout < PingInterval, FeedTypeOK, LiveInv, [FeedNext]_feedVars
    PROVE  LiveInv'
<1> USE FeedNumbers
<1>1. silence \in Nat /\ due \in 0..PingInterval /\ ping \in {NoPing} \cup 0..PongTimeout
  BY DEF FeedTypeOK
<1>2. CASE ClockKept
  BY <1>2 DEF ClockKept, LiveInv
<1>3. CASE Subscribe
  BY <1>3 DEF Subscribe, StopClock, LiveInv
<1>4. CASE Tick
  BY <1>1, <1>4 DEF Tick, EndTask, LiveInv, NoPing
<1>5. CASE Pong
  BY <1>1, <1>5 DEF Pong, LiveInv, NoPing
<1>6. CASE Elapse
  BY <1>1, <1>6 DEF Elapse, LiveInv, NoPing
<1> QED BY <1>2, <1>3, <1>4, <1>5, <1>6, ClockSteps

\* A client that answers within the timeout is never cut off, as long as the
\* timeout is shorter than the interval: an answer then falls before the next
\* ping.
THEOREM LiveNeverTimedOut ==
    PongTimeout < PingInterval => (FeedSpec => []LiveNotTimedOut)
<1> SUFFICES ASSUME PongTimeout < PingInterval PROVE FeedSpec => []LiveNotTimedOut
  OBVIOUS
<1>1. FeedInit => LiveInv
  BY DEF FeedInit, LiveInv
<1>2. FeedTypeOK /\ LiveInv => LiveNotTimedOut
  BY FeedNumbers DEF FeedTypeOK, LiveInv, LiveNotTimedOut, TimedOut, NoPing
<1>3. FeedTypeOK /\ LiveInv /\ [FeedNext]_feedVars => LiveInv'
  BY LiveStep
<1> QED BY <1>1, <1>2, <1>3, FeedTypeCorrect, PTL DEF FeedSpec

-----------------------------------------------------------------------------
(* Why a dashboard is behind *)

\* The events that are still to come to the client, by their places.
Announces(q) == \E k \in Kind : unsent[k] > 0 /\ q \in Affects[k]
Waits(q) == serving = "serving" /\ \E i \in cursor..Len(sent) : q \in Affects[sent[i]]
OnWire(q) == \E i \in 1..Len(wire) : q \in Affects[wire[i]]

\* What a sequence of events touches, event by event,
LEMMA TouchedBy ==
    ASSUME NEW events \in Seq(Kind), NEW q \in Query
    PROVE  q \in Touched(events) <=> \E i \in 1..Len(events) : q \in Affects[events[i]]
<1>1. DOMAIN events = 1..Len(events)
  BY LenProperties
<1> QED BY <1>1 DEF Touched

\* a part of a sequence,
LEMMA TouchedPart ==
    ASSUME NEW s \in Seq(Kind), NEW m \in Int, NEW n \in Int, 1 <= m, n <= Len(s),
           NEW q \in Query
    PROVE  q \in Touched(SubSeq(s, m, n)) <=> \E i \in m..n : q \in Affects[s[i]]
<1> DEFINE part == SubSeq(s, m, n)
<1>0. Len(s) \in Nat
  BY LenProperties
<1>1. \A i \in m..n : s[i] \in Kind
  BY <1>0, ElementOfSeq
<1>2. /\ part \in Seq(Kind) /\ Len(part) = IF m <= n THEN n - m + 1 ELSE 0
      /\ \A i \in 1..(n - m + 1) : part[i] = s[m + i - 1]
  BY <1>1, SubSeqProperties
<1> HIDE DEF part
<1>3. q \in Touched(part) <=> \E i \in 1..Len(part) : q \in Affects[part[i]]
  BY <1>2, TouchedBy
<1>4. ASSUME NEW i \in m..n, q \in Affects[s[i]]
      PROVE  \E j \in 1..Len(part) : q \in Affects[part[j]]
  <2>1. i - m + 1 \in 1..Len(part) /\ part[i - m + 1] = s[i]
    BY <1>2
  <2> QED BY <1>4, <2>1
<1>5. ASSUME NEW j \in 1..Len(part), q \in Affects[part[j]]
      PROVE  \E i \in m..n : q \in Affects[s[i]]
  <2>1. m + j - 1 \in m..n /\ part[j] = s[m + j - 1]
    BY <1>2
  <2> QED BY <1>5, <2>1
<1> QED BY <1>3, <1>4, <1>5 DEF part

\* the events a task has still to read,
LEMMA TouchedUnread ==
    ASSUME FeedTypeOK, NEW q \in Query
    PROVE  q \in Touched(Unread) <=> Waits(q)
<1>1. CASE serving = "serving"
  <2>1. cursor \in Int /\ 1 <= cursor /\ Len(sent) \in Int /\ sent \in Seq(Kind)
    BY DEF FeedTypeOK
  <2>2. q \in Touched(SubSeq(sent, cursor, Len(sent)))
          <=> \E i \in cursor..Len(sent) : q \in Affects[sent[i]]
    BY <2>1, TouchedPart
  <2> QED BY <1>1, <2>2 DEF Unread, Waits
<1>2. CASE serving # "serving"
  <2>1. <<>> \in Seq(Kind) /\ Len(<<>>) = 0
    BY EmptySeq
  <2>2. 1..Len(<<>>) = {}
    BY <2>1
  <2>3. q \in Touched(<<>>) <=> \E i \in 1..Len(<<>>) : q \in Affects[<<>>[i]]
    BY <2>1, TouchedBy
  <2> QED BY <1>2, <2>2, <2>3 DEF Unread, Waits
<1> QED BY <1>1, <1>2

\* and those on the wire.
LEMMA TouchedWire ==
    ASSUME FeedTypeOK, NEW q \in Query
    PROVE  q \in Touched(wire) <=> OnWire(q)
BY TouchedBy DEF FeedTypeOK, OnWire

\* A query is up to date and at rest, or will be asked, or something was lost or
\* taken by the first load.
Cause(q) ==
    \/ fetch[q] = Idle /\ data[q] = version[q]
    \/ fetch[q] = Asked \/ fetch[q] = version[q]
    \/ Announces(q) \/ Waits(q) \/ OnWire(q) \/ q \in missed \/ q \in absorbed

CauseInv == \A q \in Query : Cause(q)

\* Every step leaves a query that is behind with a reason.
LEMMA CauseStep ==
    ASSUME FeedTypeOK, CauseInv, [FeedNext]_feedVars
    PROVE  CauseInv'
<1> USE DEF Cause
<1> SUFFICES ASSUME NEW q \in Query PROVE Cause(q)'
  BY DEF CauseInv
<1>0. Cause(q) /\ Len(sent) \in Nat /\ Len(wire) \in Nat /\ cursor \in 1..(Len(sent) + 1)
  BY DEF CauseInv, FeedTypeOK
\* Steps that leave the feed, the wire and the cache alone and end no service.
<1>1. CASE UNCHANGED <<feed, serving, cursor, wire, cache, missed>>
  BY <1>0, <1>1 DEF feed, cache, Announces, Waits, OnWire
<1>2. CASE \/ UNCHANGED feedVars \/ Pong \/ Elapse \/ Open \/ Timer \/ ShowLoading
           \/ LateClose \/ Break
  BY <1>1, <1>2 DEF feedVars, task, Pong, Elapse, Open, Timer, ShowLoading, LateClose, Break
<1>3. ASSUME NEW k \in Kind, Change(k) PROVE Cause(q)'
  <2>1. /\ unsent \in [Kind -> Nat]
        /\ UNCHANGED <<sent, serving, cursor, wire, data, fetch, missed, absorbed>>
    BY <1>3 DEF Change, FeedTypeOK, task, cache
  <2>2. CASE q \in Affects[k]
    <3>1. unsent'[k] > 0
      BY <1>3, <2>1 DEF Change
    <3> QED BY <2>2, <3>1 DEF Announces
  <2>3. CASE q \notin Affects[k]
    <3>1. version'[q] = version[q]
      BY <1>3, <2>3 DEF Change
    <3>2. Announces(q) => Announces(q)'
      <4> SUFFICES ASSUME NEW l \in Kind, unsent[l] > 0, q \in Affects[l] PROVE Announces(q)'
        BY DEF Announces
      <4>1. unsent'[l] > 0
        BY <1>3, <2>1 DEF Change
      <4> QED BY <4>1 DEF Announces
    <3> QED BY <1>0, <2>1, <3>1, <3>2 DEF Waits, OnWire
  <2> QED BY <2>2, <2>3
<1>4. ASSUME NEW k \in Kind, Send(k) PROVE Cause(q)'
  <2>1. /\ unsent \in [Kind -> Nat] /\ unsent' = [unsent EXCEPT ![k] = @ - 1]
        /\ UNCHANGED <<version, serving, cursor, wire, data, fetch, absorbed>>
        /\ Len(sent') = Len(sent) + 1 /\ sent'[Len(sent) + 1] = k
        /\ \A i \in 1..Len(sent) : sent'[i] = sent[i]
    BY <1>4, AppendProperties DEF Send, FeedTypeOK, task, cache
  <2>2. Waits(q) => Waits(q)'
    <3> SUFFICES ASSUME serving = "serving", NEW i \in cursor..Len(sent), q \in Affects[sent[i]]
                 PROVE  Waits(q)'
      BY DEF Waits
    <3>1. i \in cursor'..Len(sent') /\ sent'[i] = sent[i]
      BY <1>0, <2>1
    <3> QED BY <2>1, <3>1 DEF Waits
  <2>3. q \in missed => q \in missed'
    BY <1>4 DEF Send
  <2>4. ASSUME Announces(q) PROVE Announces(q)' \/ Waits(q)' \/ q \in missed'
    <3>1. PICK l \in Kind : unsent[l] > 0 /\ q \in Affects[l]
      BY <2>4 DEF Announces
    <3>2. CASE l # k
      <4>1. unsent'[l] = unsent[l]
        BY <2>1, <3>2
      <4> QED BY <3>1, <4>1 DEF Announces
    <3>3. CASE l = k /\ serving = "serving"
      <4>1. Len(sent) + 1 \in cursor'..Len(sent')
        BY <1>0, <2>1
      <4> QED BY <2>1, <3>1, <3>3, <4>1 DEF Waits
    <3>4. CASE l = k /\ serving # "serving"
      BY <1>4, <3>1, <3>4 DEF Send
    <3> QED BY <3>2, <3>3, <3>4
  <2> QED BY <1>0, <2>1, <2>2, <2>3, <2>4 DEF OnWire
<1>5. CASE Upgrade \/ Subscribe
  <2>1. UNCHANGED <<feed, wire, cache, missed>> /\ serving # "serving"
    BY <1>5 DEF Upgrade, Subscribe
  <2> QED BY <1>0, <2>1 DEF feed, cache, Announces, Waits, OnWire
<1>6. CASE Forward
  <2>1. /\ UNCHANGED <<feed, serving, cache, missed>> /\ cursor' = cursor + 1
        /\ cursor \in 1..Len(sent) /\ wire' = Append(wire, sent[cursor])
    BY <1>0, <1>6 DEF Forward, Oldest
  <2>2. sent[cursor] \in Kind /\ wire \in Seq(Kind)
    BY <2>1, ElementOfSeq DEF FeedTypeOK
  <2>3. /\ Len(wire') = Len(wire) + 1 /\ wire'[Len(wire) + 1] = sent[cursor]
        /\ \A i \in 1..Len(wire) : wire'[i] = wire[i]
    BY <2>1, <2>2, AppendProperties
  <2>4. OnWire(q) => OnWire(q)'
    BY <1>0, <2>3 DEF OnWire
  <2>5. ASSUME Waits(q) PROVE Waits(q)' \/ OnWire(q)'
    <3>1. PICK i \in cursor..Len(sent) : q \in Affects[sent[i]]
      BY <2>5 DEF Waits
    <3>2. CASE i = cursor
      <4>1. Len(wire) + 1 \in 1..Len(wire')
        BY <1>0, <2>3
      <4> QED BY <2>3, <3>1, <3>2, <4>1 DEF OnWire
    <3>3. CASE i # cursor
      <4>1. i \in (cursor + 1)..Len(sent)
        BY <1>0, <3>3
      <4> QED BY <2>1, <2>5, <3>1, <4>1 DEF Waits, feed
    <3> QED BY <3>2, <3>3
  <2> QED BY <1>0, <2>1, <2>4, <2>5 DEF feed, cache, Announces
<1>7. CASE Lag
  <2>1. /\ UNCHANGED <<feed, serving, wire, cache>> /\ cursor' = Oldest /\ cursor < Oldest
        /\ missed' = missed \cup Touched(SubSeq(sent, cursor, Oldest - 1))
    BY <1>7 DEF Lag
  <2>2. Oldest \in Int /\ Oldest - 1 <= Len(sent)
    BY <1>0, FeedNumbers DEF Oldest
  <2>3. q \in Touched(SubSeq(sent, cursor, Oldest - 1))
          <=> \E i \in cursor..(Oldest - 1) : q \in Affects[sent[i]]
    <3>1. sent \in Seq(Kind)
      BY DEF FeedTypeOK
    <3> HIDE DEF Cause
    <3> QED BY <1>0, <2>2, <3>1, TouchedPart
  <2>4. ASSUME Waits(q) PROVE Waits(q)' \/ q \in missed'
    <3>1. PICK i \in cursor..Len(sent) : q \in Affects[sent[i]]
      BY <2>4 DEF Waits
    <3>2. CASE i < Oldest
      <4>1. i \in cursor..(Oldest - 1)
        BY <1>0, <2>2, <3>2
      <4> QED BY <2>1, <2>3, <3>1, <4>1
    <3>3. CASE ~(i < Oldest)
      <4>1. i \in Oldest..Len(sent)
        BY <1>0, <2>2, <3>3
      <4> QED BY <2>1, <2>4, <3>1, <4>1 DEF Waits, feed
    <3> QED BY <3>2, <3>3
  <2> QED BY <1>0, <2>1, <2>4 DEF feed, cache, Announces, OnWire
<1>8. CASE EndTask
  <2>1. q \in Touched(Unread) <=> Waits(q)
    BY TouchedUnread
  <2>2. UNCHANGED <<feed, wire, cache>> /\ missed' = missed \cup Touched(Unread)
    BY <1>8 DEF EndTask
  <2> QED BY <1>0, <2>1, <2>2 DEF feed, cache, Announces, OnWire
<1>9. CASE Tick \/ TaskFails
  BY <1>1, <1>8, <1>9 DEF Tick, TaskFails
<1>10. CASE Disconnected \/ Reconnect
  <2>1. /\ UNCHANGED <<feed, cache>>
        /\ missed' = missed \cup Touched(wire) \cup Touched(Unread)
    BY <1>10 DEF Disconnected, Reconnect, Restarted
  <2>2. (q \in Touched(Unread) <=> Waits(q)) /\ (q \in Touched(wire) <=> OnWire(q))
    BY TouchedUnread, TouchedWire
  <2> QED BY <1>0, <2>1, <2>2 DEF feed, cache, Announces
<1>11. CASE Message
  <2> DEFINE k == Head(wire)
  <2>1. /\ UNCHANGED <<feed, serving, cursor, data>> /\ wire # <<>> /\ wire' = Tail(wire)
        /\ IF q \in Invalidates[k] /\ ~Loads(q)
           THEN fetch'[q] = Asked
           ELSE /\ fetch'[q] = fetch[q]
                /\ q \in missed => q \in missed'
                /\ q \in absorbed => q \in absorbed'
                /\ q \in Invalidates[k] =>
                       fetch[q] \in {Asked, version[q]} \/ q \in absorbed'
    BY <1>11 DEF Message, Receive, Stale, task
  <2>2. /\ k \in Kind /\ k = wire[1] /\ Len(wire') = Len(wire) - 1
        /\ \A i \in 1..Len(wire') : wire'[i] = wire[i + 1]
    BY <2>1, HeadTailProperties DEF FeedTypeOK
  <2>3. CASE q \in Invalidates[k]
    <3>1. version'[q] = version[q]
      BY <2>1 DEF feed
    <3> QED BY <2>1, <2>3, <3>1
  <2>4. CASE q \notin Invalidates[k]
    <3>1. q \notin Affects[wire[1]]
      BY <2>2, <2>4, InvalidatesEnough
    <3>2. OnWire(q) => OnWire(q)'
      <4> SUFFICES ASSUME NEW i \in 1..Len(wire), q \in Affects[wire[i]] PROVE OnWire(q)'
        BY DEF OnWire
      <4>1. i # 1
        BY <3>1
      <4>2. i - 1 \in 1..Len(wire') /\ wire'[i - 1] = wire[i]
        BY <1>0, <2>2, <4>1
      <4> QED BY <4>2 DEF OnWire
    <3> QED BY <1>0, <2>1, <2>4, <3>2 DEF feed, Announces, Waits
  <2> QED BY <2>3, <2>4
<1>12. ASSUME NEW p \in Query, Answer(p) \/ Store(p) \/ FetchFails(p) \/ Refocus(p)
       PROVE  Cause(q)'
  <2>1. /\ UNCHANGED <<feed, serving, cursor, wire>>
        /\ fetch \in [Query -> {Idle, Asked} \cup Nat] /\ data \in [Query -> {NoData} \cup Nat]
    BY <1>12 DEF Answer, Store, FetchFails, Refocus, task, FeedTypeOK
  <2>2. CASE p # q
    <3>1. /\ fetch'[q] = fetch[q] /\ data'[q] = data[q]
          /\ (q \in missed' <=> q \in missed) /\ (q \in absorbed' <=> q \in absorbed)
      BY <1>12, <2>1, <2>2 DEF Answer, Store, FetchFails, Refocus
    <3> QED BY <1>0, <2>1, <3>1 DEF feed, Announces, Waits, OnWire
  <2>3. CASE p = q /\ Answer(q)
    BY <2>1, <2>3 DEF Answer, feed
  <2>4. CASE p = q /\ Store(q)
    <3>1. /\ fetch'[q] = Idle /\ data'[q] = fetch[q] /\ fetch[q] # Asked /\ fetch[q] # Idle
          /\ missed' = missed /\ absorbed' = absorbed
      BY <2>1, <2>4 DEF Store, Asked, Idle
    <3> QED BY <1>0, <2>1, <3>1 DEF feed, Announces, Waits, OnWire
  <2>5. CASE p = q /\ (FetchFails(q) \/ Refocus(q))
    BY <2>1, <2>5 DEF FetchFails, Refocus
  <2> QED BY <1>12, <2>2, <2>3, <2>4, <2>5
<1>13. CASE Restart
  <2>1. /\ UNCHANGED <<version, wire, cache>>
        /\ missed' = missed \cup Touched(Unread)
                       \cup {p \in Query : \E k \in Kind : unsent[k] > 0 /\ p \in Affects[k]}
    BY <1>13 DEF Restart
  <2>2. q \in Touched(Unread) <=> Waits(q)
    BY TouchedUnread
  <2>3. Announces(q) => q \in missed'
    BY <2>1 DEF Announces
  <2> QED BY <1>0, <2>1, <2>2, <2>3 DEF cache, OnWire
<1>14. Changes \subseteq Kind
  BY FeedConstants
<1> QED BY <1>2, <1>3, <1>4, <1>5, <1>6, <1>7, <1>9, <1>10, <1>11, <1>12, <1>13, <1>14
        DEF FeedNext, ServerStep, ClientStep, CacheStep

\* No interleaving of writes, events, deliveries and fetches leaves a dashboard
\* behind the database unless an event or a fetch was lost, or the first load took
\* an event about a change that its answer lacks.
THEOREM BehindAlwaysHasCause == FeedSpec => []BehindHasCause
<1>1. FeedInit => CauseInv
  BY DEF FeedInit, CauseInv, Cause
<1>2. ASSUME FeedTypeOK, CauseInv PROVE BehindHasCause
  <2> SUFFICES ASSUME NEW q \in Query
               PROVE  \/ data[q] = version[q] \/ Underway(q)
                      \/ q \in missed \/ q \in absorbed
    BY DEF BehindHasCause
  <2>1. (q \in Touched(Unread) <=> Waits(q)) /\ (q \in Touched(wire) <=> OnWire(q))
    BY <1>2, TouchedUnread, TouchedWire
  <2> QED BY <1>2, <2>1 DEF CauseInv, Cause, Announces, Underway
<1> QED BY <1>1, <1>2, CauseStep, FeedTypeCorrect, PTL DEF FeedSpec
===============================================================================
