----------------------------- MODULE BusVisits ------------------------------
(***************************************************************************)
(* What a visitor of a room may count on, and what takes it away: the      *)
(* subscriber list of CHAT_MAX_SUBSCRIBERS places, and the presence rows,  *)
(* which visitors of the same name share.  Two history variables record    *)
(* the two ways to lose out; they follow the steps of ChatBus and restrict *)
(* none of them.                                                           *)
(***************************************************************************)
EXTENDS ChatBus

VARIABLES
    crowded,    \* visitors that found MaxSubs others when they came
    robbed      \* visitors whose row a namesake has deleted, and nobody written since

visitVars == <<vars, crowded, robbed>>

Visitors(r) == {t \in Thread : Subscribed(t) /\ room[t] = r}

\* Thread u ends its visit and deletes the row that it shares with t.
Robs(u, t) ==
    /\ u # t /\ UserOf[u] = UserOf[t] /\ room[u] = room[t]
    /\ pc[u] = "clear" /\ pc'[u] # "clear"

VisitInit == Init /\ crowded = {} /\ robbed = {}

VisitNext ==
    /\ Next
    /\ crowded' = {t \in Thread :
                     /\ Subscribed(t)'
                     /\ IF Subscribed(t) THEN t \in crowded
                        ELSE Cardinality(Visitors(room'[t])) >= MaxSubs}
    /\ robbed' = {t \in Thread :
                     /\ HasRow(t)' /\ <<room'[t], UserOf[t]>> \notin presence'
                     /\ t \in robbed \/ \E u \in Thread : Robs(u, t)}

VisitSpec == VisitInit /\ [][VisitNext]_visitVars

VisitFairSpec == VisitSpec /\ \A t \in Thread : WF_vars(ThreadStep(t))

(***************************************************************************)
(* A room knows its visitors: a visiting session with a pipe is listed     *)
(* from its subscription to its unsubscription, although others are        *)
(* swapped around in the list, unless the room already had as many         *)
(* visitors as the list has places when it came.  No visit that is over    *)
(* takes up a place.                                                       *)
(***************************************************************************)
VisitorListed ==
    \A t \in Thread : Subscribed(t) /\ wfd[t] # NoFd => Listed(t) \/ t \in crowded

(***************************************************************************)
(* The presence table is exact but for one thing: a visitor has a row,     *)
(* unless another visitor of the same name has left the room since, and a  *)
(* row has a visitor, however the visits ended (key, hang-up, failed       *)
(* send): leave_room, chat_destroy and handle_sse all clear it.            *)
(***************************************************************************)
PresenceExact ==
    /\ \A t \in Thread :
          HasRow(t) /\ UserOf[t] # None
              => <<room[t], UserOf[t]>> \in presence \/ t \in robbed
    /\ \A row \in presence : \E t \in Thread :
          HasRow(t) /\ UserOf[t] = row[2] /\ room[t] = row[1]
=============================================================================
