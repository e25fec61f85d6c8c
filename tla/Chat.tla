-------------------------------- MODULE Chat ---------------------------------
\* The internal chat of a company: conversations, messages and who read them, the
\* rooms of the WebSocket gateway, and the notifications that a message sets off.  A
\* conversation is loaded whole and saved whole (its hidden_by, its participants and
\* its preview with it); read_by is appended to in the database.
EXTENDS Integers, Sequences, FiniteSets

CONSTANTS
    Null, Users,
    Handlers,                     \* calls in flight
    Requests,                     \* what may be asked, see Next
    MaxConversations, MaxMessages, MaxLost

VARIABLES
    conversations,   \* chat_conversations, in order of creation
    messages,        \* chat_messages, in order of createdAt
    rooms,           \* the conversations whose room each user's socket is in
    received,        \* <<user, message>>: broadcasts that reached a socket
    notifications,   \* notifications of messages: [user, message, read]
    calls, lost

vars == <<conversations, messages, rooms, received, notifications, calls, lost>>

NewConversation(type, members) ==
    [type |-> type, members |-> members, hidden |-> {}, last |-> 0, deleted |-> FALSE]

Conversation ==
    [type : {"direct", "group"}, members : SUBSET Users, hidden : SUBSET Users,
     last : 0 .. MaxMessages, deleted : BOOLEAN]

Message ==
    [in : 1 .. MaxConversations, sender : Users, readBy : SUBSET Users, deleted : BOOLEAN]

Init ==
    /\ conversations = <<>> /\ messages = <<>> /\ received = {} /\ notifications = {}
    /\ rooms = [u \in Users |-> {}]
    /\ calls = [h \in Handlers |-> Null] /\ lost = 0

Idle(h) == calls[h] = Null
At(h, step) == ~Idle(h) /\ calls[h].step = step
Ends(h) == calls' = [calls EXCEPT ![h] = Null]

\* getConversation: a live row of which the user is a member.
Opens(u, c) == u \in conversations[c].members /\ ~conversations[c].deleted

\* What listConversations shows.
Listed(u) == {c \in DOMAIN conversations : Opens(u, c) /\ u \notin conversations[c].hidden}

\* getUnreadCount
Unread(u) ==
    {m \in DOMAIN messages :
        /\ messages[m].in \in Listed(u) /\ ~messages[m].deleted
        /\ messages[m].sender # u /\ u \notin messages[m].readBy}

-----------------------------------------------------------------------------
\* Conversations.  A call that will save a conversation holds its copy.

SaveLater(h, c, row) == calls' = [calls EXCEPT ![h] = [step |-> "save", conv |-> c, row |-> row]]

Existing(members) ==
    {c \in DOMAIN conversations :
        /\ conversations[c].type = "direct" /\ ~conversations[c].deleted
        /\ conversations[c].members = members}

\* createConversation: the direct conversation of two users is looked up first; a
\* hidden one comes back to who asks for it.
Create(h, u) ==
    /\ "create" \in Requests /\ Idle(h)
    /\ \E type \in {"direct", "group"}, others \in SUBSET (Users \ {u}) :
        /\ type = "direct" => Cardinality(others) = 1
        /\ IF type = "direct" /\ Existing(others \cup {u}) # {}
           THEN \E c \in Existing(others \cup {u}) :
                    /\ u \in conversations[c].hidden
                    /\ SaveLater(h, c, [conversations[c] EXCEPT !.hidden = @ \ {u}])
           ELSE /\ Len(conversations) < MaxConversations
                /\ calls' = [calls EXCEPT ![h] =
                       [step |-> "insert", row |-> NewConversation(type, others \cup {u})]]
    /\ UNCHANGED <<conversations, messages, rooms, received, notifications, lost>>

Insert(h) ==
    /\ At(h, "insert") /\ Len(conversations) < MaxConversations
    /\ conversations' = Append(conversations, calls[h].row) /\ Ends(h)
    /\ UNCHANGED <<messages, rooms, received, notifications, lost>>

\* addParticipants and removeParticipant: groups only.
Edit(h, u) ==
    /\ "members" \in Requests /\ Idle(h)
    /\ \E c \in DOMAIN conversations, v \in Users :
        /\ Opens(u, c) /\ conversations[c].type # "direct"
        /\ \/ SaveLater(h, c, [conversations[c] EXCEPT !.members = @ \cup {v}])
           \/ SaveLater(h, c, [conversations[c] EXCEPT !.members = @ \ {v}])
    /\ UNCHANGED <<conversations, messages, rooms, received, notifications, lost>>

\* hideConversation
Hide(h, u) ==
    /\ "hide" \in Requests /\ Idle(h)
    /\ \E c \in Listed(u) : SaveLater(h, c, [conversations[c] EXCEPT !.hidden = @ \cup {u}])
    /\ UNCHANGED <<conversations, messages, rooms, received, notifications, lost>>

\* leaveConversation: the last one to leave removes it.
Leave(h, u) ==
    /\ "leave" \in Requests /\ Idle(h)
    /\ \E c \in DOMAIN conversations :
        /\ Opens(u, c)
        /\ SaveLater(h, c, [conversations[c] EXCEPT
                                !.members = @ \ {u},
                                !.deleted = conversations[c].members = {u}])
    /\ UNCHANGED <<conversations, messages, rooms, received, notifications, lost>>

\* softRemove writes deletedAt alone.
Save(h) ==
    /\ At(h, "save")
    /\ conversations' = [conversations EXCEPT ![calls[h].conv] =
            IF calls[h].row.deleted THEN [@ EXCEPT !.deleted = TRUE] ELSE calls[h].row]
    /\ Ends(h)
    /\ UNCHANGED <<messages, rooms, received, notifications, lost>>

-----------------------------------------------------------------------------
\* Messages.

\* sendMessage: the message is inserted...
Send(h, u) ==
    /\ "send" \in Requests /\ Idle(h) /\ Len(messages) < MaxMessages
    /\ \E c \in DOMAIN conversations :
        /\ Opens(u, c)
        /\ calls' = [calls EXCEPT ![h] =
                        [step |-> "message", user |-> u, conv |-> c, row |-> conversations[c]]]
    /\ UNCHANGED <<conversations, messages, rooms, received, notifications, lost>>

InsertMessage(h) ==
    /\ At(h, "message") /\ Len(messages) < MaxMessages
    /\ messages' = Append(messages, [in |-> calls[h].conv, sender |-> calls[h].user,
                                     readBy |-> {calls[h].user}, deleted |-> FALSE])
    /\ calls' = [calls EXCEPT ![h] =
                    [step |-> "preview", user |-> @.user, conv |-> @.conv,
                     message |-> Len(messages) + 1, row |-> @.row]]
    /\ UNCHANGED <<conversations, rooms, received, notifications, lost>>

\* ...then the copy is saved with its preview, shown to everyone again.
SavePreview(h) ==
    /\ At(h, "preview")
    /\ conversations' = [conversations EXCEPT ![calls[h].conv] =
            [calls[h].row EXCEPT !.last = calls[h].message, !.hidden = {}]]
    /\ calls' = [calls EXCEPT ![h].step = "emit"]
    /\ UNCHANGED <<messages, rooms, received, notifications, lost>>

\* CHAT_MESSAGE_SENT: the gateway broadcasts to the room, and the listener notifies
\* the members of the copy but the sender.
Emit(h) ==
    /\ At(h, "emit")
    /\ LET m == calls[h].message
           to == calls[h].row.members \ {calls[h].user}
       IN  /\ received' = received \cup
                  {<<u, m>> : u \in {v \in Users : calls[h].conv \in rooms[v]}}
           /\ notifications' = notifications \cup
                  {[user |-> u, message |-> m, read |-> FALSE] : u \in to}
    /\ Ends(h)
    /\ UNCHANGED <<conversations, messages, rooms, lost>>

\* Mutant: read_by is replaced, not appended to (SET read_by = $1).
ReadAlone(u) ==
    /\ "read" \in Requests
    /\ \E c \in DOMAIN conversations :
        /\ Opens(u, c)
        /\ messages' = [m \in DOMAIN messages |->
                IF messages[m].in = c /\ ~messages[m].deleted /\ u \notin messages[m].readBy
                THEN [messages[m] EXCEPT !.readBy = {u}] ELSE messages[m]]
    /\ UNCHANGED <<conversations, rooms, received, notifications, calls, lost>>

\* markAsRead: one UPDATE appends to read_by.
MarkAsRead(u) ==
    /\ "read" \in Requests
    /\ \E c \in DOMAIN conversations :
        /\ Opens(u, c)
        /\ messages' = [m \in DOMAIN messages |->
                IF messages[m].in = c /\ ~messages[m].deleted
                THEN [messages[m] EXCEPT !.readBy = @ \cup {u}] ELSE messages[m]]
    /\ UNCHANGED <<conversations, rooms, received, notifications, calls, lost>>

\* deleteMessage: softRemove, by its sender.
DeleteMessage(u) ==
    /\ "delete" \in Requests
    /\ \E m \in DOMAIN messages :
        /\ messages[m].sender = u /\ ~messages[m].deleted
        /\ messages' = [messages EXCEPT ![m].deleted = TRUE]
    /\ UNCHANGED <<conversations, rooms, received, notifications, calls, lost>>

-----------------------------------------------------------------------------
\* The gateway's rooms and the notification list of a user.

\* conversation:join checks membership once; a reconnected socket is in no room.
Join(u) ==
    /\ "join" \in Requests
    /\ \E c \in DOMAIN conversations :
        Opens(u, c) /\ rooms' = [rooms EXCEPT ![u] = @ \cup {c}]
    /\ UNCHANGED <<conversations, messages, received, notifications, calls, lost>>

LeaveRoom(u) ==
    /\ \E c \in rooms[u] : rooms' = [rooms EXCEPT ![u] = @ \ {c}]
    /\ UNCHANGED <<conversations, messages, received, notifications, calls, lost>>

Disconnect(u) ==
    /\ rooms[u] # {} /\ rooms' = [rooms EXCEPT ![u] = {}]
    /\ UNCHANGED <<conversations, messages, received, notifications, calls, lost>>

\* markAsRead and markAllRead of NotificationsService
ReadNotifications(u) ==
    /\ "notifications" \in Requests
    /\ \E read \in (SUBSET {n \in notifications : n.user = u}) \ {{}} :
        notifications' = (notifications \ read) \cup {[n EXCEPT !.read = TRUE] : n \in read}
    /\ UNCHANGED <<conversations, messages, rooms, received, calls, lost>>

\* deleteOne and deleteRead
DeleteNotifications(u) ==
    /\ "notifications" \in Requests
    /\ \/ \E n \in notifications : n.user = u /\ notifications' = notifications \ {n}
       \/ notifications' = {n \in notifications : ~(n.user = u /\ n.read)}
    /\ UNCHANGED <<conversations, messages, rooms, received, calls, lost>>

Lose(h) ==
    /\ ~Idle(h) /\ lost < MaxLost /\ lost' = lost + 1 /\ Ends(h)
    /\ UNCHANGED <<conversations, messages, rooms, received, notifications>>

Continue(h) == Insert(h) \/ Save(h) \/ InsertMessage(h) \/ SavePreview(h) \/ Emit(h)

Next ==
    \/ \E h \in Handlers :
        \/ Continue(h) \/ Lose(h)
        \/ \E u \in Users : Create(h, u) \/ Edit(h, u) \/ Hide(h, u) \/ Leave(h, u) \/ Send(h, u)
    \/ \E u \in Users :
        \/ MarkAsRead(u) \/ DeleteMessage(u) \/ Join(u) \/ LeaveRoom(u) \/ Disconnect(u)
        \/ ReadNotifications(u) \/ DeleteNotifications(u)

Spec == Init /\ [][Next]_vars

-----------------------------------------------------------------------------
\* The tables keep their types, and what reached somebody was stored first.
TypeOK ==
    /\ \A c \in DOMAIN conversations : conversations[c] \in Conversation
    /\ \A m \in DOMAIN messages : messages[m] \in Message
    /\ received \subseteq Users \X DOMAIN messages
    /\ \A n \in notifications : n.message \in DOMAIN messages

\* What a member has read stays read and stops counting as unread, however many
\* members read, send, hide and leave at the same time (markAsRead, getUnreadCount).
ReadStaysRead ==
    [][\A m \in DOMAIN messages : messages[m].readBy \subseteq messages'[m].readBy]_vars
==============================================================================
