------------------------------ MODULE TakAlerts -------------------------------
(* tak_alert_layer.py on tak_transport.py: every subscriber's thread turns a    *)
(* condition into one GeoChat popup and hands it to TcpSender, whose writer     *)
(* thread owns the connection to one of the addresses of the TAK Server.        *)
EXTENDS Naturals, Sequences

CONSTANTS
    Alarms,         \* conditions with a state: a sensor's detection, a regional alert
    Events,         \* transitions sent as they come
    Caller,         \* [Alarms \cup Events -> the subscriber's thread]
    NoCall,         \* no call under way, no popup in hand
    Hosts,          \* number of candidate addresses
    MaxQueue,       \* TAK_QUEUE_MAX
    MaxRises,       \* how often each may arise
    MaxOutages, Deaths, Closes

ASSUME TakBounds ==
    /\ {Hosts, MaxQueue} \subseteq Nat \ {0} /\ {MaxOutages, Deaths, Closes} \subseteq Nat
    /\ MaxRises \in [Alarms \cup Events -> Nat]
    /\ Alarms \cap Events = {}

Callers == {Caller[u] : u \in Alarms \cup Events}
Writers == 1..(1 + 2 * Deaths)          \* threads that are ever started
Candidates == 0..(Hosts - 1)

VARIABLES
    standing, risen,\* conditions that hold; how often each has arisen
    alerted,        \* _alerted
    call,           \* call of send() under way: [at, m]
    q,              \* _q
    thread,         \* _thread
    writer,         \* [live, idx, link, hand]: link is "none", "up" or "broken"
    up,             \* addresses that answer
    got,            \* popups the server received of each time a condition arose
    stop, outages, deaths

takVars == <<standing, risen, alerted, call, q, thread, writer, up, got, stop, outages, deaths>>
conditions == <<standing, risen, alerted>>
network == <<up, outages>>

Waiting == [live |-> FALSE, idx |-> 0, link |-> "none", hand |-> NoCall]
Started == [Waiting EXCEPT !.live = TRUE]

TakInit ==
    /\ standing = {} /\ risen = [u \in Alarms \cup Events |-> 0] /\ alerted = {}
    /\ call = [c \in Callers |-> NoCall] /\ q = <<>>
    /\ thread = 1 /\ writer = [w \in Writers |-> IF w = 1 THEN Started ELSE Waiting]
    /\ up \in [Candidates -> BOOLEAN] /\ got = [u \in Alarms \cup Events |-> [n \in 1..MaxRises[u] |-> 0]] /\ stop = FALSE /\ outages = 0 /\ deaths = 0

\* A condition arises again only after its end was seen; the bridges repeat what stands.
Rise(u) ==
    /\ u \notin standing \cup alerted /\ risen[u] < MaxRises[u]
    /\ standing' = standing \cup {u} /\ risen' = [risen EXCEPT ![u] = @ + 1]
    /\ UNCHANGED <<alerted, call, q, thread, writer, got, stop, deaths>> /\ UNCHANGED network
Fall(u) ==
    /\ u \in standing /\ standing' = standing \ {u}
    /\ UNCHANGED <<risen, alerted, call, q, thread, writer, got, stop, deaths>> /\ UNCHANGED network

------------------------------------------------------------------------------
(* The handlers.                                                               *)

\* Mutant: the set is kept but not asked.
_fire_always(u) == TRUE

_fire_once(u) == u \notin alerted

_send_geochat_alert(u) == [call EXCEPT ![Caller[u]] = [at |-> "check", m |-> [uid |-> u, rise |-> risen[u]]]]

\* The acoustic and the regional handler: one popup when it begins, none while it
\* stands, and ready again (_clear_alert) when it has ended.
alert_handler(u) ==
    /\ call[Caller[u]] = NoCall
    /\ IF u \notin standing THEN alerted' = alerted \ {u} /\ UNCHANGED call
       ELSE /\ alerted' = alerted \cup {u}
            /\ call' = IF _fire_once(u) THEN _send_geochat_alert(u) ELSE call
    /\ UNCHANGED <<standing, risen, q, thread, writer, got, stop, deaths>> /\ UNCHANGED network

\* make_event_handler: one popup per event.
event_handler(u) ==
    /\ call[Caller[u]] = NoCall /\ u \in standing /\ standing' = standing \ {u}
    /\ call' = _send_geochat_alert(u)
    /\ UNCHANGED <<risen, alerted, q, thread, writer, got, stop, deaths>> /\ UNCHANGED network

------------------------------------------------------------------------------
(* TcpSender.send, in the caller's thread.                                     *)

Check(c) ==
    /\ call[c] # NoCall /\ call[c].at = "check"
    /\ call' = [call EXCEPT ![c].at = IF writer[thread].live \/ stop THEN "put" ELSE "start"]
    /\ UNCHANGED <<q, thread, writer, got, stop, deaths>> /\ UNCHANGED conditions /\ UNCHANGED network

Start(c) ==
    /\ call[c] # NoCall /\ call[c].at = "start"
    /\ \E w \in Writers :
         /\ ~writer[w].live /\ \A v \in Writers : ~writer[v].live => w <= v
         /\ thread' = w /\ writer' = [writer EXCEPT ![w] = Started]
    /\ call' = [call EXCEPT ![c].at = "put"]
    /\ UNCHANGED <<q, got, stop, deaths>> /\ UNCHANGED conditions /\ UNCHANGED network

\* Mutant: no limit.
full_never == FALSE

full == Len(q) = MaxQueue

\* put_nowait, or a get_nowait of the oldest and another try; nothing once closed.
Put(c) ==
    /\ call[c] # NoCall /\ call[c].at = "put"
    /\ IF stop THEN call' = [call EXCEPT ![c] = NoCall] /\ UNCHANGED q
       ELSE IF full THEN q' = Tail(q) /\ UNCHANGED call
       ELSE q' = Append(q, call[c].m) /\ call' = [call EXCEPT ![c] = NoCall]
    /\ UNCHANGED <<thread, writer, got, stop, deaths>> /\ UNCHANGED conditions /\ UNCHANGED network

------------------------------------------------------------------------------
(* _run and _serve, in the writer's thread.                                    *)

\* Mutant: a failed connect tries the same candidate again.
next_same(i) == i

next_candidate(i) == (i + 1) % Hosts

_open(w) ==
    /\ writer[w].live /\ ~stop /\ writer[w].link = "none"
    /\ writer' = IF up[writer[w].idx] THEN [writer EXCEPT ![w].link = "up"]
                 ELSE [writer EXCEPT ![w].idx = next_candidate(@)]
    /\ UNCHANGED <<call, q, thread, got, stop, deaths>> /\ UNCHANGED conditions /\ UNCHANGED network

Take(w) ==
    /\ writer[w].live /\ ~stop /\ writer[w].link # "none" /\ writer[w].hand = NoCall /\ q # <<>>
    /\ writer' = [writer EXCEPT ![w].hand = Head(q)] /\ q' = Tail(q)
    /\ UNCHANGED <<call, thread, got, stop, deaths>> /\ UNCHANGED conditions /\ UNCHANGED network

\* sendall: received; or the peer is gone, and the write fails (the same candidate is
\* tried again) or ends in a buffer nobody empties, until keep-alive breaks it.
Write(w) ==
    /\ writer[w].live /\ writer[w].hand # NoCall
    /\ IF writer[w].link = "up"
       THEN got' = [got EXCEPT ![writer[w].hand.uid][writer[w].hand.rise] = @ + 1]
            /\ writer' = [writer EXCEPT ![w].hand = NoCall] /\ UNCHANGED q
       ELSE /\ UNCHANGED got
            /\ UNCHANGED q
            /\ \/ writer' = [writer EXCEPT ![w].hand = NoCall, ![w].link = "none"]
               \/ writer' = [writer EXCEPT ![w].hand = NoCall]
    /\ UNCHANGED <<call, thread, stop, deaths>> /\ UNCHANGED conditions /\ UNCHANGED network

\* The thread ends: it was told to stop, or its own report of an error raised.
End(w) ==
    /\ writer[w].live /\ writer' = [writer EXCEPT ![w] = Waiting]
    /\ \/ stop /\ writer[w].hand = NoCall /\ UNCHANGED deaths
       \/ deaths < Deaths /\ deaths' = deaths + 1
    /\ UNCHANGED <<call, q, thread, got, stop>> /\ UNCHANGED conditions /\ UNCHANGED network

close ==
    /\ Closes > 0 /\ ~stop /\ stop' = TRUE
    /\ UNCHANGED <<call, q, thread, writer, got, deaths>> /\ UNCHANGED conditions /\ UNCHANGED network

\* An address goes and comes; a link to one that went is broken for good.
Down(h) ==
    /\ up[h] /\ outages < MaxOutages /\ outages' = outages + 1 /\ up' = [up EXCEPT ![h] = FALSE]
    /\ writer' = [w \in Writers |-> IF writer[w].link = "up" /\ writer[w].idx = h
                                    THEN [writer[w] EXCEPT !.link = "broken"] ELSE writer[w]]
    /\ UNCHANGED <<call, q, thread, got, stop, deaths>> /\ UNCHANGED conditions
Up(h) ==
    /\ ~up[h] /\ up' = [up EXCEPT ![h] = TRUE]
    /\ UNCHANGED <<call, q, thread, writer, got, stop, outages, deaths>> /\ UNCHANGED conditions

Calling(c) == Check(c) \/ Start(c) \/ Put(c)
Writing(w) == _open(w) \/ Take(w) \/ Write(w)

TakNext ==
    \/ \E u \in Alarms : Rise(u) \/ Fall(u) \/ alert_handler(u)
    \/ \E u \in Events : Rise(u) \/ event_handler(u)
    \/ \E c \in Callers : Calling(c)
    \/ \E w \in Writers : Writing(w) \/ End(w)
    \/ \E h \in Candidates : Down(h) \/ Up(h)
    \/ close

\* Threads go on, and what stands is published again and again.
TakSpec ==
    /\ TakInit /\ [][TakNext]_takVars
    /\ \A c \in Callers : WF_takVars(Calling(c))
    /\ \A w \in Writers : WF_takVars(Writing(w))
    /\ \A u \in Alarms : WF_takVars(alert_handler(u))
    /\ \A u \in Events : WF_takVars(event_handler(u))

------------------------------------------------------------------------------

\* Types, and a backlog that stays bounded while the link stalls.
TakTypeOK ==
    /\ alerted \subseteq Alarms /\ standing \subseteq Alarms \cup Events
    /\ Len(q) <= MaxQueue /\ thread \in Writers
    /\ \A w \in Writers : writer[w].idx \in Candidates /\ writer[w].link \in {"none", "up", "broken"}

\* A condition pops up at most once each time it arises, through repeated reports, a full
\* queue, reconnections and a writer that was started again.
AlertOnce == \A u \in Alarms : \A n \in DOMAIN got[u] : got[u][n] <= 1

\* While some address answers for good the backlog is written in the end, unless the
\* writer has died of its own error, when the next call of send starts another.
Drains ==
    <>[](\E h \in Candidates : up[h]) =>
      []<>(q = <<>> \/ stop \/ \A w \in Writers : ~writer[w].live)

\* One thread at a time owns a connection.
OneWriter == \A v, w \in Writers : writer[v].live /\ writer[w].live => v = w

\* A condition that stands, with every address answering for good, is popped up in the end.
PopupArrives ==
    <>[](\A h \in Candidates : up[h]) =>
      \A u \in Alarms :
        []<>(u \in standing => got[u][risen[u]] > 0)
=============================================================================
