------------------------------ MODULE WebClient ------------------------------
(***************************************************************************)
(* The web client (web/app.js) on top of the streams of RoomFeed and of    *)
(* the history request GET /api/rooms/{id}/messages (http_chat.c).         *)
(*                                                                         *)
(* A call of selectRoom stops at its await and goes on when the history    *)
(* comes; by then other calls and other events have run.  Calls are        *)
(* numbered in the order they are made, and the EventSource a call creates *)
(* has the number of the call.  The browser reconnects an EventSource      *)
(* whose connection is lost; the server then starts a new stream.          *)
(***************************************************************************)
EXTENDS RoomFeed

CONSTANTS
    First,      \* rooms[0], which init selects
    Limit,      \* rows of a history answer (limit=50)
    MaxPosts,   \* bound of the model: messages ever stored
    MaxFaults   \* bound of the model: failed requests and lost connections

ASSUME WebAssumption ==
    /\ IsFiniteSet(Reader) /\ Reader = 1..Cardinality(Reader)
    /\ First \in Room /\ None \notin Room
    /\ Limit \in Nat \ {0} /\ MaxPosts \in Nat /\ MaxFaults \in Nat

\* Bound of the model: how often a room is selected.
Call == Reader

VARIABLES
    current,    \* the selected room
    cursor,     \* highest id rendered since the view was cleared
    shown,      \* the view: [id, by], `by' the call that put it there
    latest,     \* the newest call of selectRoom, 0 before the first
    step,       \* per call: where it is
    want,       \* per call: its room
    rows,       \* per call: the history answer
    events,     \* the call whose EventSource is in `events', or 0
    es,         \* per call: its EventSource
    taken,      \* per call: frames of the connection handled by the page
    asked,      \* rooms whose user list has been asked for
    who,        \* the room whose users are shown
    faults

pageVars == <<current, cursor, shown, latest, step, want, rows, events, es, taken>>
whoVars  == <<asked, who>>
vars     == <<feedVars, pageVars, whoVars, faults>>

TypeOK ==
    /\ current \in Room \cup {None}
    /\ cursor \in 0..MaxPosts
    /\ \A i \in DOMAIN shown : shown[i].id \in 1..Len(log) /\ shown[i].by \in 1..latest
    /\ latest \in Call \cup {0}
    /\ step \in [Call -> {"unused", "asked", "answered", "done", "failed"}]
    /\ want \in [Call -> Room \cup {None}]
    /\ \A c \in Call : rows[c] \subseteq 1..Len(log)
    /\ events \in Call \cup {0}
    /\ es \in [Call -> {"none", "connecting", "open", "closed"}]
    /\ \A c \in Call : taken[c] <= Len(got[c])
    /\ asked \subseteq Room
    /\ who \in Room \cup {None}
    /\ faults \in 0..MaxFaults

Init ==
    /\ FeedInit
    /\ current = None /\ cursor = 0 /\ shown = <<>>
    /\ latest = 0 /\ events = 0
    /\ step = [c \in Call |-> "unused"]
    /\ want = [c \in Call |-> None]
    /\ rows = [c \in Call |-> {}]
    /\ es = [c \in Call |-> "none"]
    /\ taken = [c \in Call |-> 0]
    /\ asked = {} /\ who = None
    /\ faults = 0

-----------------------------------------------------------------------------
(* addMessage *)

\* Mutant: if (m.id < cursor) return;
IsNewOrSame(id, seen) == id >= seen

\* if (m.id <= cursor) return;
IsNew(id, seen) == id > seen

\* Render a set of messages, oldest first, for call c.
Render(S, c) ==
    LET new == {i \in S : IsNew(i, cursor)} IN
    /\ cursor' = IF new = {} THEN cursor ELSE Max(new)
    /\ shown' = shown \o [k \in 1..Cardinality(new) |->
                   [id |-> CHOOSE i \in new : Cardinality({j \in new : j <= i}) = k,
                    by |-> c]]

-----------------------------------------------------------------------------
(* selectRoom *)

\* A click, or init: clear the view, ask for the history and the user list.
Select(r) ==
    LET c == latest + 1 IN
    /\ c \in Call
    /\ current = None => r = First
    /\ current' = r
    /\ cursor' = 0
    /\ shown' = <<>>
    /\ latest' = c
    /\ step' = [step EXCEPT ![c] = "asked"]
    /\ want' = [want EXCEPT ![c] = r]
    /\ asked' = asked \cup {r}
    /\ UNCHANGED <<feedVars, rows, events, es, taken, who, faults>>

\* handle_messages_get with since=0: chat_room_since from id 0.
HistoryRows(r) == MessagesSince(log, r, 0, Limit)

\* The server answers, or the request fails and the call ends with it.
History(c) ==
    /\ step[c] = "asked"
    /\ step' = [step EXCEPT ![c] = "answered"]
    /\ rows' = [rows EXCEPT ![c] = HistoryRows(want[c])]
    /\ UNCHANGED <<feedVars, current, cursor, shown, latest, want, events, es,
                   taken, whoVars, faults>>

HistoryFails(c) ==
    /\ step[c] \in {"asked", "answered"}
    /\ faults < MaxFaults
    /\ faults' = faults + 1
    /\ step' = [step EXCEPT ![c] = "failed"]
    /\ rows' = [rows EXCEPT ![c] = {}]
    /\ UNCHANGED <<feedVars, current, cursor, shown, latest, want, events, es,
                   taken, whoVars>>

\* Mutant: the previous EventSource stays open.
ResumeKeepsOld(c) ==
    /\ step[c] = "answered"
    /\ step' = [step EXCEPT ![c] = "done"]
    /\ Render(rows[c], c)
    /\ es' = [es EXCEPT ![c] = "connecting"]
    /\ events' = c
    /\ UNCHANGED <<feedVars, current, latest, want, rows, taken, whoVars, faults>>

\* The call goes on: render, close the old EventSource, open one.
Resume(c) ==
    /\ step[c] = "answered"
    /\ step' = [step EXCEPT ![c] = "done"]
    /\ Render(rows[c], c)
    /\ es' = [d \in Call |-> IF d = c THEN "connecting"
                             ELSE IF d = events THEN "closed" ELSE es[d]]
    /\ events' = c
    /\ UNCHANGED <<feedVars, current, latest, want, rows, taken, whoVars, faults>>

-----------------------------------------------------------------------------
(* The EventSource and its connection *)

\* The request arrives; handle_sse starts from the room's newest id.
Connect(c) ==
    /\ es[c] = "connecting"
    /\ TuneIn(c, want[c])
    /\ es' = [es EXCEPT ![c] = "open"]
    /\ taken' = [taken EXCEPT ![c] = 0]
    /\ UNCHANGED <<current, cursor, shown, latest, step, want, rows, events,
                   whoVars, faults>>

\* The server sends a frame.
Send(c) == Frame(c) /\ UNCHANGED <<pageVars, whoVars, faults>>

\* onmessage: addMessage, updateWho.
Receive(c) ==
    /\ es[c] = "open"
    /\ taken[c] < Len(got[c])
    /\ taken' = [taken EXCEPT ![c] = @ + 1]
    /\ Render({got[c][taken[c] + 1]}, c)
    /\ asked' = asked \cup {current}
    /\ UNCHANGED <<feedVars, current, latest, step, want, rows, events, es,
                   who, faults>>

\* Mutant: the frames of the lost connection are counted on the next one.
DropKeepsCount(c) ==
    /\ es[c] = "open"
    /\ faults < MaxFaults
    /\ faults' = faults + 1
    /\ TuneOut(c)
    /\ es' = [es EXCEPT ![c] = "connecting"]
    /\ UNCHANGED <<current, cursor, shown, latest, step, want, rows, events, taken, whoVars>>

\* The connection is lost with what was under way on it; the browser retries.
Drop(c) ==
    /\ es[c] = "open"
    /\ faults < MaxFaults
    /\ faults' = faults + 1
    /\ TuneOut(c)
    /\ es' = [es EXCEPT ![c] = "connecting"]
    /\ taken' = [taken EXCEPT ![c] = 0]
    /\ UNCHANGED <<current, cursor, shown, latest, step, want, rows, events, whoVars>>

\* The server notices that the page has closed the connection.
NoticeClose(c) ==
    /\ es[c] = "closed"
    /\ TuneOut(c)
    /\ taken' = [taken EXCEPT ![c] = 0]
    /\ UNCHANGED <<current, cursor, shown, latest, step, want, rows, events, es,
                   whoVars, faults>>

-----------------------------------------------------------------------------
(* Messages and user lists *)

\* Somebody posts; the form of this page (onsubmit) is one way to do so.
SomebodyPosts(r) ==
    /\ Len(log) < MaxPosts
    /\ Post(r)
    /\ UNCHANGED <<pageVars, whoVars, faults>>

\* Mutant: the timer of init is missing.
UpdateWhoNever == FALSE /\ UNCHANGED vars

\* updateWho, every 15 s.
UpdateWho ==
    /\ current # None
    /\ asked' = asked \cup {current}
    /\ UNCHANGED <<feedVars, pageVars, who, faults>>

\* The answer about room r comes, or the request fails.
WhoAnswer(r) ==
    /\ r \in asked
    /\ asked' = asked \ {r}
    /\ who' = r
    /\ UNCHANGED <<feedVars, pageVars, faults>>

WhoFails(r) ==
    /\ r \in asked
    /\ faults < MaxFaults
    /\ faults' = faults + 1
    /\ asked' = asked \ {r}
    /\ UNCHANGED <<feedVars, pageVars, who>>

-----------------------------------------------------------------------------
Next ==
    \/ \E r \in Room : Select(r) \/ SomebodyPosts(r) \/ WhoAnswer(r) \/ WhoFails(r)
    \/ \E c \in Call : History(c) \/ HistoryFails(c) \/ Resume(c)
    \/ \E c \in Call : Connect(c) \/ Send(c) \/ Receive(c) \/ Drop(c) \/ NoticeClose(c)
    \/ UpdateWho

Spec == Init /\ [][Next]_vars

\* Requests are answered and connections made, the page's timer runs.
FairSpec ==
    /\ Spec
    /\ WF_vars(UpdateWho)
    /\ \A r \in Room : WF_vars(WhoAnswer(r))
    /\ \A c \in Call : /\ WF_vars(History(c)) /\ WF_vars(Resume(c))
                       /\ WF_vars(Connect(c)) /\ WF_vars(NoticeClose(c))

-----------------------------------------------------------------------------
(* Properties *)

ShownIds == {shown[i].id : i \in DOMAIN shown}

(***************************************************************************)
(* The view is in id order without repetitions and `cursor' is its last    *)
(* id, although histories and streams of several calls write to it, a      *)
(* history and a stream may both have a message, and streams restart.      *)
(***************************************************************************)
ShownOnce ==
    /\ \A i, j \in DOMAIN shown : i < j => shown[i].id < shown[j].id
    /\ cursor = IF shown = <<>> THEN 0 ELSE shown[Len(shown)].id

\* The view belongs to the newest selection: its EventSource is the one in
\* `events', and nothing another call asked for was rendered since.
Undisturbed ==
    /\ latest # 0 /\ events = latest
    /\ \A i \in DOMAIN shown : shown[i].by = latest

(***************************************************************************)
(* What an undisturbed view shows: only messages of its room, all of the   *)
(* history answer, and every message of the connection it has handled;     *)
(* what it lacks up to its newest message was stored before the present    *)
(* connection was made.  addMessage's `id <= cursor' never throws away a   *)
(* frame of the stream, whichever rows the history answer has.             *)
(***************************************************************************)
ViewExact ==
    Undisturbed =>
        LET c == latest
            all == IdsOf(log, current)
        IN  /\ ShownIds \subseteq all
            /\ rows[c] \subseteq ShownIds
            /\ \A i \in 1..taken[c] : got[c][i] \in ShownIds
            /\ es[c] = "open" =>
                 \A m \in all \ ShownIds : m <= cursor => m <= start[c]

(***************************************************************************)
(* The page ends up with one connection, to the room of the call that      *)
(* opened it, and the server with no stream nobody listens to, whatever    *)
(* order the answers came in and whichever of them were lost.  It is the   *)
(* room selected last, unless that call's history never came, or came      *)
(* before that of an older call, which then closes the newer connection.   *)
(***************************************************************************)
ConnectionSettles ==
    <>[] \A c \in Call :
        /\ c = events => es[c] = "open" /\ tuned[c] = want[c]
        /\ c # events => tuned[c] = None /\ step[c] # "answered"
        /\ c = latest => tuned[c] = current \/ step[c] = "failed" \/ es[c] = "closed"

(***************************************************************************)
(* The user list shown is in the end that of the selected room, although   *)
(* answers for other rooms may arrive late: updateWho runs again and again *)
(* and asks for the room selected then.                                    *)
(***************************************************************************)
WhoSettles == <>[](who = current)

-----------------------------------------------------------------------------
(* What the documentation says and the code does not do *)

(***************************************************************************)
(* app.js, selectRoom: "history first, then live stream from the newest id *)
(* we have".  The stream starts from the newest id the server has: what    *)
(* lies between the last row of the history and that id is never shown.    *)
(***************************************************************************)
HistoryThenLive ==
    Undisturbed /\ es[latest] = "open" =>
        \A m \in IdsOf(log, current) :
            m <= start[latest] /\ (\A row \in rows[latest] : row < m) => m \in ShownIds
=============================================================================
