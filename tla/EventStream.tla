----------------------------- MODULE EventStream -----------------------------
(***************************************************************************)
(* The gateway's event log and its two ways out: the websocket stream that *)
(* the mobile app follows (event_stream of app.py with                     *)
(* gateway_event_stream_client.dart) and the pages of GET /v1/events.      *)
(*                                                                         *)
(* A cursor is "<node>:<sequence>", and the gateway reads nothing of it    *)
(* but the sequence number, so a cursor is that number here and an absent  *)
(* one is 0.  create_event inserts the row and sets its cursor in one      *)
(* transaction, and rows are never deleted: the log is a sequence, and the *)
(* cursor of an event is its place in it.                                  *)
(*                                                                         *)
(* The stream handler runs on the event loop while the handlers that       *)
(* publish run on the threads of a pool: their events may fall between any *)
(* two of its store calls.                                                 *)
(***************************************************************************)
EXTENDS Integers, Sequences

CONSTANTS Clients,      \* mobile apps that follow the stream
          Pagers,       \* readers of GET /v1/events
          Backlog,      \* how many events the stream replays at most (500)
          PageLimits,   \* the limits that pagers ask for; SQLite: negative is none
          MaxEvents,    \* bound: the length of the log
          MaxLosses     \* bound: how many connections each client loses

ASSUME ConstantsAssumption == /\ Backlog \in Nat \ {0} /\ PageLimits \subseteq Int
                              /\ MaxEvents \in Nat /\ MaxLosses \in Nat

VARIABLES log,          \* table event_envelopes: "change", or "beat" from a stream
          stage,        \* per client: where the handler of its connection is
          after,        \* per client: the cursor its connection resumes from
          todo,         \* per client: the replayed events not sent yet
          net,          \* per client: sent and not yet received
          cursor,       \* per client: _lastEventCursor
          got,          \* per client: the cursors the app has handled, in order
          losses,       \* per client: connections lost
          read          \* per pager: the cursors it has read, in order

conns == <<stage, after, todo, net>>
apps  == <<cursor, got, losses>>
vars  == <<log, conns, apps, read>>

Init == /\ log = <<>>
        /\ stage  = [c \in Clients |-> "closed"]
        /\ after  = [c \in Clients |-> 0]
        /\ todo   = [c \in Clients |-> <<>>]
        /\ net    = [c \in Clients |-> <<>>]
        /\ cursor = [c \in Clients |-> 0]
        /\ got    = [c \in Clients |-> <<>>]
        /\ losses = [c \in Clients |-> 0]
        /\ read   = [p \in Pagers |-> <<>>]

Last(s) == IF s = <<>> THEN 0 ELSE s[Len(s)]

CreateEvent(kind) == /\ Len(log) < MaxEvents
                     /\ log' = Append(log, kind)

-----------------------------------------------------------------------------
(* Bugs: the cursor itself is listed again; the newest events win over the  *)
(* oldest when there are too many.                                          *)
ListFromCursor(seq, limit) ==
  LET found == Len(log) - seq
      count == IF limit >= 0 /\ limit < found THEN limit ELSE found
  IN  [i \in 1..count |-> seq + i - 1]
ListNewest(seq, limit) ==
  LET found == Len(log) - seq
      count == IF limit >= 0 /\ limit < found THEN limit ELSE found
  IN  [i \in 1..count |-> Len(log) - count + i]

\* SELECT ... WHERE sequence > ? ORDER BY sequence ASC LIMIT ?
ListEventsAfter(seq, limit) ==
  LET found == Len(log) - seq
      count == IF limit >= 0 /\ limit < found THEN limit ELSE found
  IN  [i \in 1..count |-> seq + i]

\* Any other part of the gateway publishes.
Publish == /\ CreateEvent("change")
           /\ UNCHANGED <<conns, apps, read>>

-----------------------------------------------------------------------------
(* The websocket stream *)

\* Bug: the cursor of the query is ignored.
ConnectFromStart(c) == /\ stage[c] = "closed"
                       /\ CreateEvent("beat")
                       /\ stage' = [stage EXCEPT ![c] = "accepted"]
                       /\ after' = [after EXCEPT ![c] = 0]
                       /\ UNCHANGED <<todo, net, apps, read>>

\* The app connects with its last cursor; the handler creates a heartbeat first.
Connect(c) == /\ stage[c] = "closed"
              /\ CreateEvent("beat")
              /\ stage' = [stage EXCEPT ![c] = "accepted"]
              /\ after' = [after EXCEPT ![c] = cursor[c]]
              /\ UNCHANGED <<todo, net, apps, read>>

\* Then it lists the backlog.  It would send the heartbeat if that were empty, but the
\* heartbeat itself is newer than the app's cursor.
Replay(c) == /\ stage[c] = "accepted"
             /\ todo'  = [todo  EXCEPT ![c] = ListEventsAfter(after[c], Backlog)]
             /\ stage' = [stage EXCEPT ![c] = "replaying"]
             /\ UNCHANGED <<log, after, net, apps, read>>

Send(c) == /\ stage[c] = "replaying" /\ todo[c] # <<>>
           /\ net'  = [net  EXCEPT ![c] = Append(@, Head(todo[c]))]
           /\ todo' = [todo EXCEPT ![c] = Tail(@)]
           /\ UNCHANGED <<log, stage, after, apps, read>>

\* From now on the handler waits for messages of the app.
Listen(c) == /\ stage[c] = "replaying" /\ todo[c] = <<>>
             /\ stage' = [stage EXCEPT ![c] = "live"]
             /\ UNCHANGED <<log, after, todo, net, apps, read>>

\* A ping, or 30 seconds without one: the handler creates an event and sends it.
Beat(c) == /\ stage[c] = "live"
           /\ CreateEvent("beat")
           /\ net' = [net EXCEPT ![c] = Append(@, Len(log) + 1)]
           /\ UNCHANGED <<stage, after, todo, apps, read>>

Receive(c) == /\ net[c] # <<>>
              /\ cursor' = [cursor EXCEPT ![c] = Head(net[c])]
              /\ got'    = [got    EXCEPT ![c] = Append(@, Head(net[c]))]
              /\ net'    = [net    EXCEPT ![c] = Tail(@)]
              /\ UNCHANGED <<log, stage, after, todo, losses, read>>

\* The connection goes, with what is in flight: a network loss or a restart of the
\* gateway. (The old handler may linger and create heartbeats that reach nobody;
\* to the others they are changes that somebody published.)
Hangup(c) == /\ stage[c] # "closed" /\ losses[c] < MaxLosses
             /\ losses' = [losses EXCEPT ![c] = @ + 1]
             /\ stage'  = [stage  EXCEPT ![c] = "closed"]
             /\ todo'   = [todo   EXCEPT ![c] = <<>>]
             /\ net'    = [net    EXCEPT ![c] = <<>>]

\* The app keeps its cursor for the next connection.
Lose(c) == /\ Hangup(c)
           /\ UNCHANGED <<log, after, cursor, got, read>>

\* The app is started anew, or its pairing is cleared: it has no cursor any more.
Relaunch(c) == /\ Hangup(c)
               /\ cursor' = [cursor EXCEPT ![c] = 0]
               /\ got'    = [got    EXCEPT ![c] = <<>>]
               /\ UNCHANGED <<log, after, read>>

-----------------------------------------------------------------------------
(* GET /v1/events: a reader goes on from next_cursor *)

\* Bug: next_cursor is the first cursor of the next page.
NextCursorBeyond(p) == Last(read[p]) + 1

\* next_cursor of the pages so far: the last event's, or what was asked.
NextCursor(p) == Last(read[p])

Page(p, limit) ==
  /\ read' = [read EXCEPT ![p] = @ \o ListEventsAfter(NextCursor(p), limit)]
  /\ UNCHANGED <<log, conns, apps>>

Next == \/ Publish
        \/ \E c \in Clients : \/ Connect(c) \/ Replay(c) \/ Send(c) \/ Listen(c)
                              \/ Beat(c) \/ Receive(c) \/ Lose(c) \/ Relaunch(c)
        \/ \E p \in Pagers, limit \in PageLimits : Page(p, limit)

Spec == Init /\ [][Next]_vars

-----------------------------------------------------------------------------
Cursors == Seq(Nat \ {0})

TypeOK == /\ log    \in Seq({"change", "beat"})
          /\ stage  \in [Clients -> {"closed", "accepted", "replaying", "live"}]
          /\ after  \in [Clients -> Nat]
          /\ todo   \in [Clients -> Cursors]
          /\ net    \in [Clients -> Cursors]
          /\ cursor \in [Clients -> Nat]
          /\ got    \in [Clients -> Cursors]
          /\ losses \in [Clients -> Nat]
          /\ read   \in [Pagers -> Cursors]

Before(s, i) == IF i = 1 THEN 0 ELSE s[i - 1]
Ascending(s) == \A i \in 1..Len(s) : Before(s, i) < s[i]

\* If an app is made to step over events, a heartbeat makes it do so: the event that
\* follows a gap is never a change. Backlogs themselves have no gaps.
OnlyBeatsJump ==
  \A c \in Clients : \A i \in 1..Len(got[c]) :
    got[c][i] > Before(got[c], i) + 1 => log[got[c][i]] = "beat"

\* What an app has handled, what is in flight to it and what is still to be sent form
\* one ascending run, over lost connections and resumed ones: nothing is handled twice
\* or out of order, and a loss at any moment resumes right after what was handled.
OneAscendingRun ==
  \A c \in Clients : Ascending(got[c] \o net[c] \o todo[c]) /\ cursor[c] = Last(got[c])

\* A reader that follows next_cursor reads every event once, in order, whatever limits
\* it asks for and however many events arrive between two pages.
PagesMissNothing == \A p \in Pagers : read[p] = [i \in 1..Len(read[p]) |-> i]

\* docs/architecture/event-streaming.md: the app is streamed live events, and asks
\* for a backfill after its last cursor when it reconnects: so an app that has
\* handled an event has handled every change before it.
StreamMissesNothing ==
  \A c \in Clients : \A n \in 1..cursor[c] :
    log[n] = "change" => \E i \in 1..Len(got[c]) : got[c][i] = n
=============================================================================
