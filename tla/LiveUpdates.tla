---------------------------- MODULE LiveUpdates ----------------------------
(***************************************************************************)
(* How a change of a job reaches an open dashboard: the job_events         *)
(* trigger, the listener, the client's channel in the hub, the socket, the *)
(* useJobStream hook (ticket, socket, polling and reconnect timers) and    *)
(* the query cache behind the list and the detail page.  Hub has the       *)
(* locking; with one dashboard a broadcast is one step.                    *)
(***************************************************************************)
EXTENDS Naturals, Sequences

CONSTANTS
  Buffer,      \* capacity of the client's channel (16)
  MaxVersion,  \* bound: changes of the user's jobs
  Shown,       \* the changes that are to the job on the detail page
  MaxDrops,    \* bound: connections lost and fetches failed
  Outages      \* which of OutageKinds happen

OutageKinds == {"listener_down", "socket_lost", "unreachable", "fetch_error"}

ASSUME UpdatesAssumption ==
  /\ Buffer \in Nat \ {0} /\ MaxVersion \in Nat /\ MaxDrops \in Nat
  /\ Shown \subseteq 1..MaxVersion
  /\ Outages \subseteq OutageKinds

Pages == {"list", "detail"}

VARIABLES
  version,                \* changes so far
  announced,              \* changes whose event row is written
  listening, inbox,       \* the LISTEN connection and what it holds
  conn, channel,          \* server side of the socket; the client's channel
  lost,                   \* history: changes dropped, and where
  drops,
  sock, polling, timer,   \* the hook
  stopped,                \* its state.closed
  fetch, answer, cache    \* per page: refetch, its answer, version on screen

server == <<version, announced, listening, inbox>>
hook == <<sock, polling, timer, stopped>>
pages == <<fetch, answer, cache>>
feedVars == <<server, conn, channel, lost, drops, hook, pages>>

(* A dashboard that has just loaded its pages and mounts the hook.         *)
FeedInit ==
  /\ version = 0 /\ announced = 0
  /\ listening = TRUE /\ inbox = <<>>
  /\ conn = "none" /\ channel = <<>>
  /\ lost = {} /\ drops = 0
  /\ sock = "ticket" /\ polling = FALSE /\ timer = FALSE /\ stopped = FALSE
  /\ fetch = [p \in Pages |-> "idle"]
  /\ answer = [p \in Pages |-> 0]
  /\ cache = [p \in Pages |-> 0]

-----------------------------------------------------------------------------
(* The API process.                                                        *)

(* A status write, then the insert of its event.                           *)
ChangeJob ==
  /\ version < MaxVersion /\ announced = version
  /\ version' = version + 1
  /\ UNCHANGED <<announced, listening, inbox, conn, channel, lost, drops, hook, pages>>

InsertEvent ==
  /\ announced < version
  /\ announced' = version
  /\ inbox' = IF listening THEN Append(inbox, version) ELSE inbox
  /\ lost' = IF listening THEN lost ELSE lost \cup {<<version, "listener">>}
  /\ UNCHANGED <<version, listening, conn, channel, drops, hook, pages>>

ListenerDown ==
  /\ "listener_down" \in Outages /\ listening /\ drops < MaxDrops
  /\ listening' = FALSE /\ inbox' = <<>>
  /\ lost' = lost \cup {<<inbox[i], "listener">> : i \in 1..Len(inbox)}
  /\ drops' = drops + 1
  /\ UNCHANGED <<version, announced, conn, channel, hook, pages>>

ListenerReconnects ==
  /\ ~listening
  /\ listening' = TRUE
  /\ UNCHANGED <<version, announced, inbox, conn, channel, lost, drops, hook, pages>>

(* With no client registered the message goes nowhere; with a full buffer  *)
(* it is dropped.                                                          *)
Broadcast ==
  /\ inbox # <<>>
  /\ inbox' = Tail(inbox)
  /\ \/ /\ conn # "registered"
        /\ lost' = lost \cup {<<Head(inbox), "socket">>} /\ UNCHANGED channel
     \/ /\ conn = "registered" /\ Len(channel) < Buffer
        /\ channel' = Append(channel, Head(inbox)) /\ UNCHANGED lost
     \/ /\ conn = "registered" /\ Len(channel) >= Buffer
        /\ lost' = lost \cup {<<Head(inbox), "buffer">>} /\ UNCHANGED channel
  /\ UNCHANGED <<version, announced, listening, conn, drops, hook, pages>>

(* GET /ws with the ticket: the upgrade succeeds, or the browser is told   *)
(* that the connection failed.                                             *)
Connect ==
  /\ sock = "connecting" /\ conn = "none"
  /\ \/ conn' = "accepted"
     \/ "unreachable" \in Outages /\ conn' = "gone"
  /\ UNCHANGED <<server, channel, lost, drops, hook, pages>>

Register ==
  /\ conn = "accepted"
  /\ conn' = "registered"
  /\ UNCHANGED <<server, channel, lost, drops, hook, pages>>

(* The connection breaks, or the browser has closed it: Unregister.        *)
Disconnect ==
  /\ conn \in {"accepted", "registered"}
  /\ \/ sock = "closing" /\ UNCHANGED drops
     \/ "socket_lost" \in Outages /\ drops < MaxDrops /\ drops' = drops + 1
  /\ conn' = "gone" /\ channel' = <<>>
  /\ lost' = lost \cup {<<channel[i], "socket">> : i \in 1..Len(channel)}
  /\ UNCHANGED <<server, hook, pages>>

-----------------------------------------------------------------------------
(* The query cache.                                                        *)

(* An invalidation that joins the fetch under way.                         *)
InvalidateJoins(ps) ==
  /\ fetch' = [p \in Pages |-> IF p \in ps /\ fetch[p] = "idle" THEN "sent" ELSE fetch[p]]
  /\ UNCHANGED answer
(* invalidateQueries fetches again, and drops a fetch that is under way    *)
(* with its answer.                                                        *)
Invalidate(ps) ==
  /\ fetch' = [p \in Pages |-> IF p \in ps THEN "sent" ELSE fetch[p]]
  /\ answer' = [p \in Pages |-> IF p \in ps THEN cache[p] ELSE answer[p]]

FetchAnswered(p) ==
  /\ fetch[p] = "sent"
  /\ fetch' = [fetch EXCEPT ![p] = "answered"]
  /\ answer' = [answer EXCEPT ![p] = version]
  /\ UNCHANGED <<server, conn, channel, lost, drops, hook, cache>>

(* A change whose message is still to come.                                *)
OnItsWay(v) ==
  (\E i \in 1..Len(inbox) : inbox[i] = v) \/ (\E i \in 1..Len(channel) : channel[i] = v)

(* The announced changes a page is to show.                                *)
OnPage(p) == {v \in 1..announced : p = "list" \/ v \in Shown}

(* The fetch and its one retry fail: the page keeps what it shows, under   *)
(* an error message, and nothing fetches again by itself.                  *)
FetchFails(p) ==
  /\ "fetch_error" \in Outages /\ drops < MaxDrops /\ fetch[p] = "sent"
  /\ drops' = drops + 1
  /\ fetch' = [fetch EXCEPT ![p] = "idle"]
  /\ lost' = lost \cup {<<v, p>> : v \in {w \in OnPage(p) : cache[p] < w /\ ~OnItsWay(w)}}
  /\ UNCHANGED <<server, conn, channel, hook, answer, cache>>

FetchShown(p) ==
  /\ fetch[p] = "answered"
  /\ fetch' = [fetch EXCEPT ![p] = "idle"]
  /\ cache' = [cache EXCEPT ![p] = answer[p]]
  /\ UNCHANGED <<server, conn, channel, lost, drops, hook, answer>>

(* The user comes back to the page: queries refetch on focus and on mount. *)
Refocus(p) ==
  /\ fetch[p] = "idle"
  /\ Invalidate({p})
  /\ UNCHANGED <<server, conn, channel, lost, drops, hook, cache>>

-----------------------------------------------------------------------------
(* The hook.                                                               *)

(* A reconnect without the polling.                                        *)
ReconnectOnly ==
  /\ timer' = (timer \/ ~stopped)
  /\ UNCHANGED polling
ScheduleReconnect ==
  /\ timer' = (timer \/ ~stopped)
  /\ polling' = (polling \/ ~stopped)

(* connect() without the second test of state.closed.                      *)
TicketUnchecked ==
  /\ sock = "ticket"
  /\ \/ sock' = "connecting" /\ UNCHANGED <<polling, timer>>
     \/ "unreachable" \in Outages /\ sock' = "closed" /\ ScheduleReconnect
  /\ UNCHANGED <<server, conn, channel, lost, drops, stopped, pages>>

(* connect(): after the await the hook may have been stopped; a failed     *)
(* POST /ws-ticket is caught.                                              *)
Ticket ==
  /\ sock = "ticket"
  /\ \/ sock' = (IF stopped THEN "closed" ELSE "connecting") /\ UNCHANGED <<polling, timer>>
     \/ "unreachable" \in Outages /\ sock' = "closed" /\ ScheduleReconnect
  /\ UNCHANGED <<server, conn, channel, lost, drops, stopped, pages>>

OnOpen ==
  /\ sock = "connecting" /\ conn \in {"accepted", "registered"}
  /\ sock' = "open" /\ polling' = FALSE
  /\ UNCHANGED <<server, conn, channel, lost, drops, timer, stopped, pages>>

(* onmessage patches the list with the event instead of refetching it.     *)
OnMessagePatches ==
  /\ sock = "open" /\ channel # <<>>
  /\ channel' = Tail(channel)
  /\ cache' = [cache EXCEPT !["list"] = Head(channel)]
  /\ Invalidate(IF Head(channel) \in Shown THEN {"detail"} ELSE {})
  /\ UNCHANGED <<server, conn, lost, drops, hook>>

(* The write loop takes a message; the browser hands it to onmessage.      *)
OnMessage ==
  /\ sock = "open" /\ channel # <<>>
  /\ channel' = Tail(channel)
  /\ Invalidate({"list"} \cup (IF Head(channel) \in Shown THEN {"detail"} ELSE {}))
  /\ UNCHANGED <<server, conn, lost, drops, hook, cache>>

OnClose ==
  /\ \/ sock \in {"connecting", "open", "closing"} /\ conn = "gone"
     \/ sock = "closing" /\ conn = "none"
  /\ sock' = "closed" /\ ScheduleReconnect
  /\ UNCHANGED <<server, conn, channel, lost, drops, stopped, pages>>

ReconnectTimer ==
  /\ timer
  /\ timer' = FALSE
  /\ sock' = "ticket" /\ conn' = "none"
  /\ UNCHANGED <<server, channel, lost, drops, polling, stopped, pages>>

PollTimer ==
  /\ polling
  /\ Invalidate({"list"})
  /\ UNCHANGED <<server, conn, channel, lost, drops, hook, cache>>

(* The effect's cleanup: logout, or the page is left.                      *)
Cleanup ==
  /\ ~stopped
  /\ stopped' = TRUE /\ timer' = FALSE /\ polling' = FALSE
  /\ sock' = IF sock \in {"connecting", "open"} THEN "closing" ELSE sock
  /\ UNCHANGED <<server, conn, channel, lost, drops, pages>>

-----------------------------------------------------------------------------
ApiStep == InsertEvent \/ ListenerReconnects \/ Broadcast
SocketStep == Connect \/ Register \/ Ticket \/ OnOpen \/ OnMessage \/ OnClose
PageStep(p) == FetchAnswered(p) \/ FetchShown(p)

FeedNext ==
  \/ ChangeJob \/ ListenerDown \/ Disconnect \/ Cleanup
  \/ ApiStep \/ SocketStep \/ ReconnectTimer \/ PollTimer
  \/ \E p \in Pages : PageStep(p) \/ FetchFails(p) \/ Refocus(p)

FeedSpec == FeedInit /\ [][FeedNext]_feedVars

(* The API, the browser's events and both timers run, and a fetch is       *)
(* answered, or fails.  Its answer is shown though newer invalidations     *)
(* restart it (SF): answers are faster than the polling interval.  Nobody  *)
(* has to come back to the page.                                           *)
FairFeedSpec ==
  /\ FeedSpec
  /\ WF_feedVars(InsertEvent) /\ WF_feedVars(ListenerReconnects \/ Broadcast)
  /\ WF_feedVars(SocketStep) /\ WF_feedVars(ReconnectTimer) /\ WF_feedVars(PollTimer)
  /\ \A p \in Pages : WF_feedVars(FetchAnswered(p)) /\ SF_feedVars(FetchShown(p))

-----------------------------------------------------------------------------
(* After the cleanup no timer fires and no socket is opened, whatever      *)
(* await or close event was under way: another user may be logged in by    *)
(* then (state.closed in useJobStream).                                    *)
StopsForGood ==
  stopped => ~polling /\ ~timer /\ sock \notin {"connecting", "open"}

(* No announced change is forgotten: its message was dropped before it     *)
(* reached the browser, it is on its way, or every page it concerns shows  *)
(* it, has a refetch under way that will, or has had that refetch fail;    *)
(* an answer older than the change may be in flight when its message comes *)
(* (invalidateQueries).                                                    *)
Dropped(v) == \E place \in {"listener", "socket", "buffer"} : <<v, place>> \in lost
Shows(p, v) ==
  \/ cache[p] >= v \/ fetch[p] = "sent" \/ (fetch[p] = "answered" /\ answer[p] >= v)
  \/ <<v, p>> \in lost
NoChangeForgotten ==
  \A v \in 1..announced :
    Dropped(v) \/ OnItsWay(v) \/ (Shows("list", v) /\ (v \in Shown => Shows("detail", v)))

(* Every change whose event is written shows on the list, and on the       *)
(* detail page of its job: a refetch answered before the change does not   *)
(* hide it.  What may stay unseen is only a change that reached no         *)
(* listener, no registered client or a full buffer, and on a page whose    *)
(* refetch failed with its retry (useJobStream).                           *)
Settles(p, v) == cache[p] >= v \/ <<v, p>> \in lost
AnnouncedChangeShows ==
  \A v \in 1..MaxVersion :
    (announced >= v) ~>
      \/ Settles("list", v) /\ (v \in Shown => Settles("detail", v))
      \/ stopped \/ Dropped(v)

(* A change dropped at a full buffer still shows on the list, unless the   *)
(* refetch fails: the messages that filled the buffer are delivered after  *)
(* it and refetch the list (onmessage).  It is not the polling fallback    *)
(* that BroadcastToUser's comment names, which is off while the socket is  *)
(* open, and the detail page is left as it is until it is visited again.   *)
OverflowShowsOnList ==
  \A v \in 1..MaxVersion :
    (<<v, "buffer">> \in lost /\ channel # <<>>) ~>
      Settles("list", v) \/ conn # "registered" \/ stopped

(* While the socket is down, polling brings every change to the list, even *)
(* if the socket never recovers and a poll's fetch fails (useJobStream).   *)
ListCatchesUpWhileDown ==
  \A v \in 1..MaxVersion :
    (version >= v /\ sock = "closed") ~> cache["list"] >= v \/ sock = "open" \/ stopped
=============================================================================
