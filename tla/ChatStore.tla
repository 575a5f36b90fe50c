----------------------------- MODULE ChatStore -----------------------------
(***************************************************************************)
(* The storage layer of the chat service (features/chat/chat_db.c).        *)
(*                                                                         *)
(* One SQLite connection behind one mutex: every call is one atomic step,  *)
(* so the layer is a set of functions on the message table and callers     *)
(* apply each of them in an action of its own.                             *)
(*                                                                         *)
(* messages.id is INTEGER PRIMARY KEY AUTOINCREMENT and no statement ever  *)
(* deletes a message, so the table is an append-only log, the id of a      *)
(* message is its position in it, and all of a message but its room is     *)
(* left out.  Result sets are sets of ids: both queries return rows in     *)
(* ascending id order, so a set determines the rows returned.              *)
(***************************************************************************)
EXTENDS Naturals, Sequences, FiniteSetsExt

\* The ids of the messages of room r.
IdsOf(log, r) == {i \in DOMAIN log : log[i] = r}

\* The `limit' smallest, and the `limit' largest, members of a set of ids.
Lowest(S, limit)  == {i \in S : Cardinality({j \in S : j < i}) < limit}
Highest(S, limit) == {i \in S : Cardinality({j \in S : j > i}) < limit}

\* chat_db_insert_message: the new row's id is Len(log) + 1.
InsertMessage(log, r) == Append(log, r)

\* Mutant: id >= after.
MessagesFrom(log, r, after, limit) ==
    Lowest({i \in IdsOf(log, r) : i >= after}, limit)

\* chat_db_messages_since: WHERE id > after ORDER BY id ASC LIMIT limit.
MessagesSince(log, r, after, limit) ==
    Lowest({i \in IdsOf(log, r) : i > after}, limit)

\* chat_db_messages_before: the newest rows below `before'; 0 means no bound.
MessagesBefore(log, r, before, limit) ==
    Highest({i \in IdsOf(log, r) : before = 0 \/ i < before}, limit)

\* chat_db_max_message_id: COALESCE(MAX(id), 0).
MaxMessageId(log, r) ==
    IF IdsOf(log, r) = {} THEN 0 ELSE Max(IdsOf(log, r))

\* chat_db_presence_set / chat_db_presence_clear on the table keyed by
\* (room, user), given as a set of pairs.
PresenceSet(table, r, u)   == table \cup {<<r, u>>}
PresenceClear(table, r, u) == table \ {<<r, u>>}
=============================================================================
