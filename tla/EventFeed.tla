------------------------------ MODULE EventFeed ------------------------------
(* From a change in the database to a dashboard that shows it: the broadcast  *)
(* channel of services/event_broadcaster.rs, the task that serves one         *)
(* connection (api/websocket.rs), the reconnecting socket of the web client   *)
(* (apps/web/src/services/websocket.ts) and its query cache                   *)
(* (contexts/websocket_context.tsx).  Dashboards share only the channel, which *)
(* readers do not change, so there is one.  Time passes in units of 10 s.     *)
EXTENDS Integers, Sequences

CONSTANTS
    Changes,       \* the kinds of change that happen in this instance
    Query,         \* the cached queries of the page that is open
    Capacity,      \* events the channel retains (DEFAULT_CHANNEL_CAPACITY)
    PingInterval,  \* PING_INTERVAL, in units
    PongTimeout,   \* PONG_TIMEOUT, in units
    MaxAttempts,   \* maxReconnectAttempts
    MaxChanges,    \* bound: changes of the database
    MaxTroubles    \* bound: broken links, restarts, failed fetches and clicks
                   \* on "reconnect"

\* The three cached queries an event can make stale.
Cached == {"reports", "report-with-jobs", "suites"}

\* What the writer of a change modifies before it announces the change.
Affects ==
    [report_created   |-> {"reports"},
     report_updated   |-> {"reports", "report-with-jobs"},
     job_created      |-> {"reports", "report-with-jobs"},
     job_updated      |-> {"reports", "report-with-jobs"},
     suites_available |-> {"suites"}]

Kind == DOMAIN Affects

\* handleMessage: the queries the client invalidates on an event.
InvalidatesReportOnly ==
    [report_created   |-> {"reports"},
     report_updated   |-> {"reports", "report-with-jobs"},
     job_created      |-> {"report-with-jobs"},
     job_updated      |-> {"report-with-jobs"},
     suites_available |-> {"suites"}]

Invalidates ==
    [report_created   |-> {"reports"},
     report_updated   |-> {"reports", "report-with-jobs"},
     job_created      |-> {"reports", "report-with-jobs"},
     job_updated      |-> {"reports", "report-with-jobs"},
     suites_available |-> {"suites"}]

ASSUME FeedConstants ==
    /\ Changes \subseteq Kind /\ Query \subseteq Cached
    /\ Capacity \in Nat \ {0}
    /\ PingInterval \in Nat \ {0}
    /\ PongTimeout \in 1..PingInterval
    /\ {MaxAttempts, MaxChanges, MaxTroubles} \subseteq Nat

VARIABLES
    version,   \* [Query -> Nat]: how often the query's answer has changed
    unsent,    \* [Kind -> Nat]: changes written and not yet announced
    changes,   \* changes written so far
    sent,      \* every event ever sent; the channel retains the last Capacity
    serving,   \* the task of the client's socket: "none", "spawned", "serving"
    cursor,    \* rx: index of the next event the task receives
    wire,      \* events on their way to the client
    link,      \* "up" or "broken"
    silence,   \* last_pong.elapsed()
    due,       \* time until ping_interval ticks
    ping,      \* age of the unanswered ping, or NoPing
    socket,    \* this.ws: "none", "connecting", "open"
    closing,   \* sockets closed by disconnect() whose onclose is to come
    status,    \* this._status
    shown,     \* displayStatus of the connection indicator
    attempts,  \* this.reconnectAttempts, which only its limit is compared with
    timers,    \* pending reconnection timers
    newest,    \* whether the one of reconnectTimeoutId is among them
    blocked,   \* whether the browser refuses the URL: new WebSocket() throws
    data,      \* [Query -> Int]: the version in the client's cache, or NoData
    fetch,     \* [Query -> Int]: Idle, Asked, or the version on its way
    missed,    \* history: queries with a lost event or fetch and no fetch since
    absorbed,  \* history: queries whose first load took an event about a change
               \* that its answer lacks, and no fetch since
    troubles

feed == <<version, unsent, sent, changes>>
task == <<serving, cursor, silence, due, ping>>
page == <<socket, closing, status, shown, attempts, timers, newest, blocked>>
cache == <<data, fetch, absorbed>>
feedVars == <<feed, task, wire, link, page, cache, missed, troubles>>

NoPing == -1
NoData == -1
Idle == -1
Asked == -2
Loading == {"connecting", "reconnecting"}

\* The queries that some event of a sequence affects.
Touched(events) == Query \cap UNION {Affects[events[i]] : i \in DOMAIN events}
\* Events the task has not received, retained or not.
Unread == IF serving = "serving" THEN SubSeq(sent, cursor, Len(sent)) ELSE <<>>
Oldest == IF Len(sent) > Capacity THEN Len(sent) - Capacity + 1 ELSE 1

\* setStatus, and the indicator: only loading states are shown with a delay.
SetStatus(s) ==
    /\ status' = s
    /\ shown' = IF s \in Loading THEN shown ELSE s

\* scheduleReconnect, with the timers that are pending besides.
Schedule(others) ==
    /\ SetStatus("reconnecting")
    /\ timers' = others + 1 /\ newest' = TRUE

\* connect() without a live socket, with the timers that are pending.  Its catch
\* branch schedules a reconnection however many attempts there have been.
Connect(others, newer) ==
    IF blocked
    THEN Schedule(others) /\ UNCHANGED socket
    ELSE /\ socket' = "connecting" /\ SetStatus("connecting")
         /\ timers' = others /\ newest' = newer

\* The page has been loaded: connect() has been called, the queries are asked.
FeedInit ==
    /\ version = [q \in Query |-> 0]
    /\ unsent = [k \in Kind |-> 0] /\ changes = 0
    /\ sent = <<>> /\ wire = <<>>
    /\ serving = "none" /\ cursor = 1 /\ link = "up"
    /\ silence = 0 /\ due = 0 /\ ping = NoPing
    /\ blocked \in BOOLEAN /\ newest = blocked
    /\ socket = IF blocked THEN "none" ELSE "connecting"
    /\ status = IF blocked THEN "reconnecting" ELSE "connecting"
    /\ timers = IF blocked THEN 1 ELSE 0
    /\ shown = "disconnected" /\ closing = 0 /\ attempts = 0
    /\ data = [q \in Query |-> NoData]
    /\ fetch = [q \in Query |-> Asked]
    /\ missed = {} /\ absorbed = {} /\ troubles = 0

------------------------------------------------------------------------------
(* The server *)

\* A handler or an extraction task has written a change.
Change(k) ==
    /\ changes < MaxChanges /\ changes' = changes + 1
    /\ version' = [q \in Query |-> IF q \in Affects[k] THEN version[q] + 1
                                                      ELSE version[q]]
    /\ unsent' = [unsent EXCEPT ![k] = @ + 1]
    /\ UNCHANGED <<sent, task, wire, link, page, cache, missed, troubles>>

\* EventBroadcaster::send: receivers that have subscribed will see the event.
Send(k) ==
    /\ unsent[k] > 0
    /\ unsent' = [unsent EXCEPT ![k] = @ - 1]
    /\ sent' = Append(sent, k)
    /\ missed' = IF serving = "serving" THEN missed ELSE missed \cup (Query \cap Affects[k])
    /\ UNCHANGED <<version, changes, task, wire, link, page, cache, troubles>>

\* websocket_handler, authenticated: the upgrade, and a task is spawned.
Upgrade ==
    /\ socket = "connecting" /\ serving = "none" /\ link = "up"
    /\ serving' = "spawned"
    /\ UNCHANGED <<feed, cursor, silence, due, ping, wire, link, page, cache,
                   missed, troubles>>

\* A task that serves nobody has no clock.
StopClock == silence' = 0 /\ due' = 0 /\ ping' = NoPing

\* handle_websocket_connection begins: broadcaster.subscribe(), the first tick
\* of the interval is immediate.
Subscribe ==
    /\ serving = "spawned"
    /\ serving' = "serving"
    /\ cursor' = Len(sent) + 1
    /\ StopClock
    /\ UNCHANGED <<feed, wire, link, page, cache, missed, troubles>>

\* rx.recv() = Ok: the event goes to the client.
Forward ==
    /\ serving = "serving" /\ link = "up"
    /\ cursor \in Oldest..Len(sent)
    /\ wire' = Append(wire, sent[cursor])
    /\ cursor' = cursor + 1
    /\ UNCHANGED <<feed, serving, silence, due, ping, link, page, cache, missed,
                   troubles>>

\* rx.recv() = Lagged: the receiver continues with the oldest retained event.
Lag ==
    /\ serving = "serving" /\ cursor < Oldest
    /\ cursor' = Oldest
    /\ missed' = missed \cup Touched(SubSeq(sent, cursor, Oldest - 1))
    /\ UNCHANGED <<feed, serving, silence, due, ping, wire, link, page, cache,
                   troubles>>

\* The task ends: what it has not forwarded will not reach the client.
EndTask ==
    /\ serving' = "none"
    /\ StopClock
    /\ missed' = missed \cup Touched(Unread)
    /\ UNCHANGED <<feed, cursor, wire, page, cache>>

\* ping_interval.tick(): close on a pong timeout, otherwise send a ping.
TimedOutEarly == silence > PongTimeout
TimedOut == silence > PingInterval + PongTimeout

TickWithoutTimeout ==
    /\ serving = "serving" /\ due = 0
    /\ due' = PingInterval /\ ping' = 0
    /\ UNCHANGED <<feed, serving, cursor, silence, wire, link, page, cache, missed,
                   troubles>>

Tick ==
    /\ serving = "serving" /\ due = 0
    /\ IF TimedOut
       THEN EndTask
       ELSE /\ due' = PingInterval
            /\ ping' = 0
            /\ UNCHANGED <<feed, serving, cursor, silence, wire, page, cache, missed>>
    /\ UNCHANGED <<link, troubles>>

\* Message::Pong.
Pong ==
    /\ serving = "serving" /\ ping # NoPing /\ link = "up"
    /\ ping' = NoPing /\ silence' = 0
    /\ UNCHANGED <<feed, serving, cursor, due, wire, link, page, cache, missed,
                   troubles>>

\* A send or a receive on a broken connection fails: the loop ends.
TaskFails ==
    /\ serving # "none" /\ link = "broken"
    /\ EndTask
    /\ UNCHANGED <<link, troubles>>

\* One unit of time.  A connected browser answers a ping within PongTimeout, and
\* a due tick is taken before the next unit.
Elapse ==
    /\ serving = "serving" /\ due > 0
    /\ link = "up" => ping < PongTimeout
    /\ silence' = silence + 1 /\ due' = due - 1
    /\ ping' = IF ping = NoPing THEN NoPing
               ELSE IF ping < PongTimeout THEN ping + 1 ELSE ping
    /\ UNCHANGED <<feed, serving, cursor, wire, link, page, cache, missed, troubles>>

------------------------------------------------------------------------------
(* The socket of the client *)

\* ws.onopen.
Open ==
    /\ socket = "connecting" /\ serving # "none" /\ link = "up"
    /\ socket' = "open" /\ attempts' = 0
    /\ SetStatus("connected")
    /\ UNCHANGED <<feed, task, wire, link, closing, timers, newest, blocked, cache,
                   missed, troubles>>

\* ws.onclose: schedule a reconnection, or give up.
OnClose ==
    IF attempts < MaxAttempts
    THEN Schedule(timers)
    ELSE SetStatus("disconnected") /\ UNCHANGED <<timers, newest>>

\* The client's connection is gone: refused with 401, ended by the server, or
\* broken.  What was on its way is lost, and its task serves nobody.
Disconnected ==
    /\ \/ socket = "connecting" /\ serving = "none"
       \/ socket # "none" /\ link = "broken"
       \/ socket = "open" /\ serving = "none" /\ wire = <<>>
    /\ socket' = "none" /\ serving' = "none" /\ link' = "up"
    /\ wire' = <<>> /\ StopClock
    /\ missed' = missed \cup Touched(wire) \cup Touched(Unread)
    /\ OnClose
    /\ UNCHANGED <<feed, cursor, closing, attempts, blocked, cache, troubles>>

\* A reconnection timer fires, the newest one or an older one that is still
\* pending: connect() does nothing when a socket is alive.
Fire ==
    \E left \in BOOLEAN :
        /\ left => newest /\ timers > 1
        /\ IF socket = "none"
           THEN Connect(timers - 1, left)
           ELSE timers' = timers - 1 /\ newest' = left /\ UNCHANGED <<socket, status, shown>>

TimerKeepsCount ==
    /\ timers > 0 /\ Fire
    /\ UNCHANGED <<feed, task, wire, link, attempts, closing, blocked, cache, missed,
                   troubles>>

\* (From its limit on the count makes no difference, and it is kept by turning
\* back to the limit: another attempt is a step, not a stutter.)
Timer ==
    /\ timers > 0 /\ Fire
    /\ attempts' = IF attempts > MaxAttempts THEN MaxAttempts ELSE attempts + 1
    /\ UNCHANGED <<feed, task, wire, link, closing, blocked, cache, missed, troubles>>

\* A loading state is shown when it has lasted a second.
ShowLoading ==
    /\ status \in Loading /\ shown # status
    /\ shown' = status
    /\ UNCHANGED <<feed, task, wire, link, socket, closing, status, attempts, timers,
                   newest, blocked, cache, missed, troubles>>

\* A click on the indicator: reconnect(), that is disconnect() and connect().
\* The old socket's onclose comes later, when manualClose is false again, and
\* clearTimeout reaches the newest timer only.
Restarted ==
    /\ shown = "disconnected" /\ troubles < MaxTroubles
    /\ troubles' = troubles + 1
    /\ closing' = IF socket = "none" THEN closing ELSE closing + 1
    /\ missed' = missed \cup Touched(wire) \cup Touched(Unread)
    /\ serving' = "none" /\ link' = "up"
    /\ wire' = <<>> /\ StopClock
    /\ attempts' = 0
    /\ UNCHANGED <<feed, cursor, blocked, cache>>

ReconnectClearsAlways == Restarted /\ Connect(timers - 1, FALSE)
Reconnect == Restarted /\ Connect(IF newest THEN timers - 1 ELSE timers, FALSE)

\* onclose of a socket that disconnect() closed.
LateClose ==
    /\ closing > 0
    /\ closing' = closing - 1
    /\ OnClose
    /\ UNCHANGED <<feed, task, wire, link, socket, attempts, blocked, cache, missed,
                   troubles>>

------------------------------------------------------------------------------
(* The query cache *)

\* ws.onmessage and handleMessage.  invalidateQueries asks again, in place of a
\* fetch in flight, except that it lets a first load go on: without data there is
\* nothing to be stale, and the load takes the event even when its answer is older.
Stale == Query \cap Invalidates[Head(wire)]
Loads(q) == data[q] = NoData /\ fetch[q] # Idle

Receive(again) ==
    /\ socket = "open" /\ link = "up" /\ wire # <<>>
    /\ wire' = Tail(wire)
    /\ fetch' = [q \in Query |-> IF q \in again THEN Asked ELSE fetch[q]]
    /\ missed' = missed \ again
    /\ absorbed' = (absorbed \ again) \cup
           {q \in Stale : Loads(q) /\ fetch[q] \notin {Asked, version[q]}}
    /\ UNCHANGED <<feed, task, link, page, data, troubles>>

MessageKeepsFetch == Receive({q \in Stale : fetch[q] = Idle})
Message == Receive({q \in Stale : ~Loads(q)})

\* The server answers a fetch with the current rows.
Answer(q) ==
    /\ fetch[q] = Asked
    /\ fetch' = [fetch EXCEPT ![q] = version[q]]
    /\ UNCHANGED <<feed, task, wire, link, page, data, missed, absorbed, troubles>>

\* The answer reaches the cache.
Store(q) ==
    /\ fetch[q] >= 0
    /\ data' = [data EXCEPT ![q] = fetch[q]]
    /\ fetch' = [fetch EXCEPT ![q] = Idle]
    /\ UNCHANGED <<feed, task, wire, link, page, missed, absorbed, troubles>>

\* The fetch and its one retry fail: the cache keeps what it has.
FetchFails(q) ==
    /\ fetch[q] # Idle /\ troubles < MaxTroubles
    /\ troubles' = troubles + 1
    /\ fetch' = [fetch EXCEPT ![q] = Idle]
    /\ missed' = missed \cup {q}
    /\ UNCHANGED <<feed, task, wire, link, page, data, absorbed>>

\* The window is focused again and the data is older than staleTime.
Refocus(q) ==
    /\ fetch[q] = Idle
    /\ fetch' = [fetch EXCEPT ![q] = Asked]
    /\ missed' = missed \ {q} /\ absorbed' = absorbed \ {q}
    /\ UNCHANGED <<feed, task, wire, link, page, data, troubles>>

------------------------------------------------------------------------------
(* Failures *)

\* The network drops the connection; each end notices in its own time.
Break ==
    /\ socket # "none" /\ link = "up" /\ troubles < MaxTroubles
    /\ link' = "broken" /\ troubles' = troubles + 1
    /\ UNCHANGED <<feed, task, wire, page, cache, missed>>

\* The server restarts: tasks, channel and announcements to be made are gone.
Restart ==
    /\ troubles < MaxTroubles
    /\ troubles' = troubles + 1
    /\ unsent' = [k \in Kind |-> 0]
    /\ missed' = missed \cup Touched(Unread)
                    \cup {q \in Query : \E k \in Kind : unsent[k] > 0 /\ q \in Affects[k]}
    /\ serving' = "none" /\ StopClock
    /\ link' = IF socket = "none" THEN "up" ELSE "broken"
    /\ UNCHANGED <<version, changes, sent, cursor, wire, page, cache>>

ServerStep ==
    \/ \E k \in Kind : Send(k)
    \/ Upgrade \/ Subscribe \/ Forward \/ Lag \/ Tick \/ Pong \/ TaskFails
ClientStep ==
    \/ Open \/ Disconnected \/ Timer \/ ShowLoading \/ LateClose \/ Message
CacheStep(q) == Answer(q) \/ Store(q)

FeedNext ==
    \/ ServerStep \/ ClientStep \/ Elapse
    \/ \E k \in Changes : Change(k)
    \/ \E q \in Query : CacheStep(q) \/ FetchFails(q) \/ Refocus(q)
    \/ Reconnect \/ Break \/ Restart

FeedSpec == FeedInit /\ [][FeedNext]_feedVars

\* The runtime polls ready tasks and timers, and the browser runs its callbacks:
\* each kind of step that stays possible is taken.  Changes, failures, clicks and
\* focus are left to chance.
FairFeed ==
    /\ FeedSpec
    /\ WF_feedVars(\E k \in Kind : Send(k))
    /\ WF_feedVars(Upgrade \/ Disconnected) /\ WF_feedVars(Subscribe)
    /\ WF_feedVars(Forward \/ Lag) /\ WF_feedVars(Tick) /\ WF_feedVars(Pong)
    /\ WF_feedVars(Open) /\ WF_feedVars(Timer) /\ WF_feedVars(LateClose)
    /\ WF_feedVars(Message)
    /\ \A q \in Query : WF_feedVars(CacheStep(q))

------------------------------------------------------------------------------
(* Properties *)

FeedTypeOK ==
    /\ version \in [Query -> Nat]
    /\ unsent \in [Kind -> Nat]
    /\ sent \in Seq(Kind)
    /\ wire \in Seq(Kind)
    /\ serving \in {"none", "spawned", "serving"}
    /\ cursor \in 1..(Len(sent) + 1)
    /\ link \in {"up", "broken"}
    /\ silence \in Nat /\ due \in 0..PingInterval
    /\ ping \in {NoPing} \cup 0..PongTimeout
    /\ socket \in {"none", "connecting", "open"}
    /\ closing \in Nat
    /\ status \in Loading \cup {"connected", "disconnected"}
    /\ shown \in Loading \cup {"connected", "disconnected"}
    /\ attempts \in 0..(MaxAttempts + 1) /\ timers \in Nat
    /\ {newest, blocked} \subseteq BOOLEAN
    /\ newest => timers > 0
    /\ data \in [Query -> {NoData} \cup Nat]
    /\ fetch \in [Query -> {Idle, Asked} \cup Nat]
    /\ missed \subseteq Query /\ absorbed \subseteq Query
    /\ changes \in 0..MaxChanges
    /\ troubles \in 0..MaxTroubles

\* Something will still make the client fetch a query, or is fetching it.
Underway(q) ==
    \/ \E k \in Kind : unsent[k] > 0 /\ q \in Affects[k]
    \/ q \in Touched(Unread)
    \/ q \in Touched(wire)
    \/ fetch[q] = Asked \/ fetch[q] = version[q]

\* The dashboard is behind the database only while something that will update it
\* is under way, since an event or a fetch was lost, or since its first load took
\* an event about a change that the answer of that load lacks: no other
\* interleaving of writes, announcements, deliveries and overlapping fetches
\* leaves it stale, and a lagging receiver loses only what the channel dropped.
BehindHasCause ==
    \A q \in Query : \/ data[q] = version[q] \/ Underway(q)
                     \/ q \in missed \/ q \in absorbed

\* A browser that answers pings within PONG_TIMEOUT is never cut off by the pong
\* timeout, whenever its answers fall between two ticks.
LiveNotTimedOut ==
    serving = "serving" /\ link = "up" /\ due = 0 => ~TimedOut

\* A connection whose client has silently gone is closed within two pings and the
\* timeout: handle_websocket_connection does not serve it for ever.
SilenceBounded ==
    serving = "serving" => silence <= 2 * PingInterval + PongTimeout

\* A dashboard that has missed nothing, and whose first load has taken no event
\* about a change that it lacks, is up to date in the end.
Converges == \A q \in Query : <>[](q \in missed \cup absorbed \/ data[q] = version[q])

\* However connections fail and whenever the user reconnects, the client ends
\* with a socket or gives up visibly: onclose does not reconnect for ever.  (When
\* the browser refuses the URL itself, the catch branch of connect() does, past
\* maxReconnectAttempts: every timer schedules the next one.)
Settles == blocked \/ <>[](socket = "open" \/ (status = "disconnected" /\ timers = 0))
==============================================================================
