---- MODULE EventStream ----
(***************************************************************************)
(* The live log of the web controller: events are numbered, put in the     *)
(* history and broadcast (web_setup/session.rs), an event socket hands     *)
(* them to the page (web_setup/routes.rs), and the page drops the numbers  *)
(* it has passed and connects again when the connection is lost            *)
(* (web/modules/event-stream.js).  An event is its number.                 *)
(***************************************************************************)
EXTENDS Naturals, Sequences, SequencesExt, FiniteSets

CONSTANTS
    Reader,         \* threads that publish: the readers of a command's stdout
                    \* and stderr, the command runner, the API handlers
    Events,         \* how many events there are in all, a bound
    HistoryLimit,   \* EVENT_HISTORY_LIMIT
    Capacity        \* of the broadcast channel

\* The socket publishes that it is connected; a socket whose page has gone is
\* one more reader.
Publisher == Reader \cup {"socket"}

\* The history holds 2000 events: more than there are threads that publish.
ASSUME StreamAssumption ==
    /\ "socket" \notin Reader
    /\ Events \in Nat /\ HistoryLimit \in Nat /\ Capacity \in Nat \ {0}
    /\ IsFiniteSet(Publisher) /\ Cardinality(Publisher) <= HistoryLimit

VARIABLES
    sequence,   \* event_sequence
    history,    \* event_history
    hand,       \* the event a publisher has numbered, 0 when it has none
    recorded,   \* the publishers whose event is in the history, not yet sent
    \* the socket
    pc, rx, lagged, last, batch,
    \* the page
    lastSeq, shown,
    \* history: a publication has overlapped with another one, or with a
    \* connection that was being made
    crossed

log == <<sequence, history, hand, recorded>>
channel == <<rx, lagged>>
page == <<lastSeq, shown>>
vars == <<log, channel, pc, last, batch, page, crossed>>

Init ==
    /\ sequence = 0 /\ history = <<>>
    /\ hand = [p \in Publisher |-> 0] /\ recorded = {}
    /\ pc = "closed" /\ rx = <<>> /\ lagged = FALSE /\ last = 0 /\ batch = <<>>
    /\ lastSeq = 0 /\ shown = {}
    /\ crossed = FALSE

Publishing == {p \in Publisher : hand[p] # 0}

\* Slip: one more is kept.
NewestAndOne(s, n) == IF Len(s) <= n + 1 THEN s ELSE SubSeq(s, Len(s) - n, Len(s))

Newest(s, n) == IF Len(s) <= n THEN s ELSE SubSeq(s, Len(s) - n + 1, Len(s))
\* Slip: the event after the last one handed over is taken for that one.
AboveNext(s, n) == SelectSeq(s, LAMBDA e : e > n + 1)

\* A recursive function, for the proofs: they know nothing of SelectSeq.
Above(s, n) ==
    LET above[i \in 0..Len(s)] ==
            IF i = 0 THEN <<>>
            ELSE IF s[i] > n THEN Append(above[i - 1], s[i]) ELSE above[i - 1]
    IN above[Len(s)]
Larger(m, n) == IF m > n THEN m ELSE n

---------------------------------------------------------------------------
\* publish_event, in three steps

\* What the socket and the readers may publish, and when.
MayPublish(p) ==
    /\ hand[p] = 0 /\ sequence < Events
    /\ p = "socket" => pc = "greet"

Number(p) ==
    /\ MayPublish(p)
    /\ sequence' = sequence + 1
    /\ hand' = [hand EXCEPT ![p] = sequence + 1]
    /\ crossed' = \/ crossed \/ Publishing # {}
                  \/ p # "socket" /\ pc \in {"subscribed", "replay", "greet"}
    /\ UNCHANGED <<history, recorded, channel, pc, last, batch, page>>

Record(p) ==
    /\ hand[p] # 0 /\ p \notin recorded
    /\ history' = Newest(Append(history, hand[p]), HistoryLimit)
    /\ recorded' = recorded \cup {p}
    /\ UNCHANGED <<sequence, hand, channel, pc, last, batch, page, crossed>>

\* A receiver that is too far behind loses the oldest events and is told so.
Sent(e) ==
    IF pc = "closed" THEN UNCHANGED channel
    ELSE /\ rx' = Newest(Append(rx, e), Capacity)
         /\ lagged' = (lagged \/ Len(rx) = Capacity)

Broadcast(p) ==
    /\ hand[p] # 0 /\ p \in recorded
    /\ Sent(hand[p])
    /\ hand' = [hand EXCEPT ![p] = 0] /\ recorded' = recorded \ {p}
    /\ IF p = "socket"
         THEN batch' = <<hand[p]>> /\ pc' = "catch-up"
         ELSE UNCHANGED <<batch, pc>>
    /\ UNCHANGED <<sequence, history, last, page, crossed>>

---------------------------------------------------------------------------
\* event_socket

Subscribe ==
    /\ pc = "closed"
    /\ crossed' = (crossed \/ Publishing # {})
    /\ pc' = "subscribed" /\ rx' = <<>> /\ lagged' = FALSE
    /\ UNCHANGED <<log, last, batch, page>>

ReadHistory ==
    /\ pc = "subscribed"
    /\ batch' = history /\ last' = 0
    /\ pc' = "replay"
    /\ UNCHANGED <<log, channel, page, crossed>>

\* The page takes an event it has not passed.
Take(e) ==
    IF e <= lastSeq THEN UNCHANGED page
    ELSE lastSeq' = e /\ shown' = shown \cup {e}

Replay ==
    /\ pc = "replay"
    /\ IF batch = <<>>
         THEN pc' = "greet" /\ UNCHANGED <<last, batch, page>>
         ELSE /\ last' = Larger(last, Head(batch)) /\ Take(Head(batch))
              /\ batch' = Tail(batch) /\ UNCHANGED pc
    /\ UNCHANGED <<log, channel, crossed>>

Receive ==
    /\ pc = "loop" /\ ~lagged /\ rx # <<>>
    /\ rx' = Tail(rx)
    /\ IF Head(rx) > last THEN last' = Head(rx) /\ Take(Head(rx))
       ELSE UNCHANGED <<last, page>>
    /\ UNCHANGED <<log, pc, lagged, batch, crossed>>

\* Slip: what was lost is not taken from the history.
LaggedSkips ==
    /\ pc = "loop" /\ lagged
    /\ lagged' = FALSE
    /\ UNCHANGED <<log, pc, rx, last, batch, page, crossed>>

Lagged ==
    /\ pc = "loop" /\ lagged
    /\ lagged' = FALSE /\ batch' = Above(history, last)
    /\ pc' = "catch-up"
    /\ UNCHANGED <<log, rx, last, page, crossed>>

\* What the history had above the last event, or the greeting.  The last event
\* handed over may be an older one than those before it.
CatchUp ==
    /\ pc = "catch-up"
    /\ IF batch = <<>>
         THEN pc' = "loop" /\ UNCHANGED <<last, batch, page>>
         ELSE /\ last' = Head(batch) /\ Take(Head(batch))
              /\ batch' = Tail(batch) /\ UNCHANGED pc
    /\ UNCHANGED <<log, channel, crossed>>

\* The connection is lost; the page connects again, or is loaded anew.
Disconnect ==
    /\ pc # "closed" /\ hand["socket"] = 0
    /\ pc' = "closed" /\ rx' = <<>> /\ lagged' = FALSE /\ last' = 0 /\ batch' = <<>>
    /\ \/ UNCHANGED page
       \/ lastSeq' = 0 /\ shown' = {}
    /\ UNCHANGED <<log, crossed>>

Next ==
    \/ \E p \in Publisher : Number(p) \/ Record(p) \/ Broadcast(p)
    \/ Subscribe \/ ReadHistory \/ Replay \/ Receive \/ Lagged \/ CatchUp
    \/ Disconnect

Spec == Init /\ [][Next]_vars

---------------------------------------------------------------------------
\* Nobody publishes, and the socket has handed over all it has.
Settled == pc = "loop" /\ Publishing = {} /\ rx = <<>> /\ ~lagged

TypeOK ==
    /\ sequence \in 0..Events
    /\ Range(history) \subseteq 1..sequence /\ Len(history) <= HistoryLimit
    /\ hand \in [Publisher -> 0..sequence] /\ recorded \subseteq Publishing
    /\ Len(rx) <= Capacity
    /\ lastSeq \in 0..sequence /\ shown \subseteq 1..lastSeq

\* A page that has caught up shows the newest event: an operation's last word
\* reaches it, however the publications overlap (routes.rs event_socket).
NewestShown == Settled => sequence \in shown \cup {0}

\* A page that has caught up shows every event the controller still holds, also
\* after a lag, a lost connection or a reload (routes.rs event_socket).
HistoryShown == Settled => Range(history) \subseteq shown

\* It does as long as publications keep apart from one another and from the
\* connections, however many events were dropped for a slow page (routes.rs
\* event_socket, RecvError::Lagged).
NothingMissing == ~crossed => HistoryShown
====
