------------------------------ MODULE Presence ------------------------------
(***************************************************************************)
(* Who has a document open: frappe_runtime's handlers, socket, dispatch    *)
(* and connect. A socket is one connection of a client to its site's       *)
(* namespace; each event of it is handled by a task of its own, and the    *)
(* tasks of all sockets interleave on one event loop where they wait: for  *)
(* the web process, asked for a permission or for who the user is, and     *)
(* between the documents a disconnect announces.                           *)
(*                                                                         *)
(* Socket.IO is external: one process, packets of one client handled in    *)
(* order, lists sent to one client arriving in order, and rooms that keep  *)
(* a socket until its disconnect handler is done.                          *)
(***************************************************************************)
EXTENDS Integers

CONSTANTS
  Sockets,   \* connections, each used once
  Users,
  UserOf,    \* the user of each socket's sid cookie
  Docs,      \* documents
  Again,     \* sockets that connect again to the namespace they are on
  MaxAcks    \* bound: connects of one socket to the namespace

ASSUME PresenceAssumption ==
  /\ UserOf \in [Sockets -> Users]
  /\ Again \subseteq Sockets /\ MaxAcks \in Nat \ {0}

Acks == 1..MaxAcks

VARIABLES
  conn,      \* what Socket.IO knows of a socket
  acks,      \* its connects so far; reack: one more, being authenticated
  reack,
  cur,       \* the Session that is saved for it
  tracked,   \* subscribed_documents of each Session of it
  opening,   \* doc_open handlers that wait for has_permission
  viewing,   \* the open_doc rooms
  shown,     \* the last doc_viewers of a document a client that views it got
  todo       \* the documents a disconnect has yet to announce

sessionVars == <<acks, reack, cur, tracked>>
roomVars    == <<opening, viewing, shown>>
rtVars        == <<conn, sessionVars, roomVars, todo>>

Connected(s)    == conn[s] = "on"
ViewersIn(v, d) == {t \in Sockets : <<t, d>> \in v}
UsersIn(v, d)   == {UserOf[t] : t \in ViewersIn(v, d)}
OpenDocs(s)     == {d \in Docs : <<s, d>> \in viewing}
Nothing         == [d \in Docs |-> {}]

RtInit ==
  /\ conn = [s \in Sockets |-> "new"]
  /\ acks = [s \in Sockets |-> 0]
  /\ reack = {}
  /\ cur = [s \in Sockets |-> 1]
  /\ tracked = [s \in Sockets |-> [k \in Acks |-> {}]]
  /\ opening = {} /\ viewing = {}
  /\ shown = [s \in Sockets |-> Nothing]
  /\ todo = [s \in Sockets |-> {}]

-----------------------------------------------------------------------------
(***************************************************************************)
(* Connections.                                                            *)
(***************************************************************************)
\* A connect is authenticated by the web process; nothing else of the client is
\* handled until it answers. A client may connect to the namespace it is on.
Connect(s) ==
  /\ conn[s] = "new"
  /\ conn' = [conn EXCEPT ![s] = "auth"]
  /\ UNCHANGED <<sessionVars, roomVars, todo>>

ConnectAgain(s) ==
  /\ s \in Again /\ Connected(s) /\ s \notin reack /\ acks[s] < MaxAcks
  /\ reack' = reack \cup {s}
  /\ UNCHANGED <<conn, acks, cur, tracked, roomVars, todo>>

\* Each connect saves a Session of its own, with nothing tracked, under the sid.
SaveSession(s) ==
  /\ acks' = [acks EXCEPT ![s] = @ + 1]
  /\ cur' = [cur EXCEPT ![s] = acks[s] + 1]
  /\ UNCHANGED <<tracked, roomVars, todo>>

Accepted(s) ==
  /\ conn[s] = "auth"
  /\ conn' = [conn EXCEPT ![s] = "on"]
  /\ SaveSession(s)
  /\ UNCHANGED reack

AcceptedAgain(s) ==
  /\ s \in reack /\ Connected(s)
  /\ reack' = reack \ {s}
  /\ SaveSession(s)
  /\ UNCHANGED conn

\* A refused connect takes the sid off its rooms, and no handler runs.
Refused(s) ==
  /\ conn[s] = "auth" \/ (s \in reack /\ Connected(s))
  /\ conn' = [conn EXCEPT ![s] = "gone"]
  /\ reack' = reack \ {s}
  /\ viewing' = {p \in viewing : p[1] # s}
  /\ UNCHANGED <<acks, cur, tracked, opening, shown, todo>>

-----------------------------------------------------------------------------
(***************************************************************************)
(* doc_open and doc_close.                                                 *)
(***************************************************************************)
\* notify_doc_viewers by s, over the rooms v: everyone in the room gets the list,
\* unless that is s's user alone, on one socket.
Notified(v, s, d) ==
  IF \E t \in Sockets : ViewersIn(v, d) = {t} /\ UserOf[t] = UserOf[s]
  THEN shown
  ELSE [t \in Sockets |->
          IF t \in ViewersIn(v, d) THEN [shown[t] EXCEPT ![d] = UsersIn(v, d)] ELSE shown[t]]

OpenDoc(s, d) ==
  /\ Connected(s) /\ s \notin reack
  /\ opening' = opening \cup {[socket |-> s, doc |-> d, session |-> cur[s]]}
  /\ UNCHANGED <<conn, sessionVars, viewing, shown, todo>>

\* has_permission is false, or the web process failed.
OpenDenied(h) ==
  /\ h \in opening
  /\ opening' = opening \ {h}
  /\ UNCHANGED <<conn, sessionVars, viewing, shown, todo>>

\* From here to the emit the loop does not switch tasks. join and save_session do
\* nothing for a socket that has gone meanwhile; the Session that is saved is the
\* one the handler began with.
JoinRoom(h) ==
  IF Connected(h.socket) THEN viewing \cup {<<h.socket, h.doc>>} ELSE viewing

Track(h) ==
  /\ tracked' = [tracked EXCEPT ![h.socket][h.session] = @ \cup {h.doc}]
  /\ cur' = IF Connected(h.socket) /\ h.doc \notin tracked[h.socket][h.session]
            THEN [cur EXCEPT ![h.socket] = h.session] ELSE cur
  /\ UNCHANGED <<acks, reack>>

OpenJoinsGone(h) ==
  /\ h \in opening
  /\ opening' = opening \ {h}
  /\ viewing' = viewing \cup {<<h.socket, h.doc>>}
  /\ Track(h)
  /\ shown' = Notified(viewing', h.socket, h.doc)
  /\ UNCHANGED <<conn, todo>>

OpenNotifiesFirst(h) ==
  /\ h \in opening
  /\ opening' = opening \ {h}
  /\ viewing' = JoinRoom(h)
  /\ Track(h)
  /\ shown' = Notified(viewing, h.socket, h.doc)
  /\ UNCHANGED <<conn, todo>>

OpenGranted(h) ==
  /\ h \in opening
  /\ opening' = opening \ {h}
  /\ viewing' = JoinRoom(h)
  /\ Track(h)
  /\ shown' = Notified(viewing', h.socket, h.doc)
  /\ UNCHANGED <<conn, todo>>

\* What a client was shown of a document goes when it closes it.
Forgets(v, s, d) == [Notified(v, s, d) EXCEPT ![s][d] = {}]

CloseKeepsPair(s, d) ==
  /\ Connected(s) /\ s \notin reack
  /\ viewing' = viewing \ {<<s, d>>}
  /\ shown' = Forgets(viewing', s, d)
  /\ UNCHANGED <<conn, sessionVars, opening, todo>>

CloseNotifiesFirst(s, d) ==
  /\ Connected(s) /\ s \notin reack
  /\ viewing' = viewing \ {<<s, d>>}
  /\ tracked' = [tracked EXCEPT ![s][cur[s]] = @ \ {d}]
  /\ shown' = Forgets(viewing, s, d)
  /\ UNCHANGED <<conn, acks, reack, cur, opening, todo>>

CloseDoc(s, d) ==
  /\ Connected(s) /\ s \notin reack
  /\ viewing' = viewing \ {<<s, d>>}
  /\ tracked' = [tracked EXCEPT ![s][cur[s]] = @ \ {d}]
  /\ shown' = Forgets(viewing', s, d)
  /\ UNCHANGED <<conn, acks, reack, cur, opening, todo>>

-----------------------------------------------------------------------------
(***************************************************************************)
(* Disconnects, a client's or a ping timeout. The handler runs before      *)
(* Socket.IO takes the socket off its rooms, one document at a time.       *)
(***************************************************************************)
Disconnect(s) ==
  /\ Connected(s)
  /\ conn' = [conn EXCEPT ![s] = "leaving"]
  /\ reack' = reack \ {s}
  /\ todo' = [todo EXCEPT ![s] = tracked[s][cur[s]]]
  /\ UNCHANGED <<acks, cur, tracked, roomVars>>

Announce(s, d) ==
  /\ conn[s] = "leaving" /\ d \in todo[s]
  /\ todo' = [todo EXCEPT ![s] = @ \ {d}]
  /\ shown' = Notified(viewing, s, d)
  /\ UNCHANGED <<conn, sessionVars, opening, viewing>>

LeaveRooms(s) ==
  /\ conn[s] = "leaving" /\ todo[s] = {}
  /\ conn' = [conn EXCEPT ![s] = "gone"]
  /\ viewing' = {p \in viewing : p[1] # s}
  /\ UNCHANGED <<sessionVars, opening, shown, todo>>

RtNext ==
  \/ \E s \in Sockets :
       \/ Connect(s) \/ ConnectAgain(s) \/ Accepted(s) \/ AcceptedAgain(s) \/ Refused(s)
       \/ Disconnect(s) \/ LeaveRooms(s)
       \/ \E d \in Docs : OpenDoc(s, d) \/ CloseDoc(s, d) \/ Announce(s, d)
  \/ \E h \in opening : OpenDenied(h) \/ OpenGranted(h)

RtSpec == RtInit /\ [][RtNext]_rtVars

-----------------------------------------------------------------------------
Handlers == [socket : Sockets, doc : Docs, session : Acks]

\* Only a socket Socket.IO still knows is in a room: a doc_open that outlives its
\* socket joins nothing.
RtTypeOK ==
  /\ conn \in [Sockets -> {"new", "auth", "on", "leaving", "gone"}]
  /\ acks \in [Sockets -> 0..MaxAcks]
  /\ reack \subseteq Sockets
  /\ cur \in [Sockets -> Acks]
  /\ tracked \in [Sockets -> [Acks -> SUBSET Docs]]
  /\ opening \subseteq Handlers
  /\ viewing \subseteq {s \in Sockets : conn[s] \in {"on", "leaving"}} \X Docs
  /\ shown \in [Sockets -> [Docs -> SUBSET Users]]
  /\ todo \in [Sockets -> SUBSET Docs]

\* Two people with one document open know of each other, in whatever order their
\* permission checks were answered, and whoever opened, closed, disconnected or
\* connected again meanwhile: the list is made after the join, and a list that is
\* held back was of nobody else.
NobodyMissed ==
  \A s, t \in Sockets, d \in Docs :
    {<<s, d>>, <<t, d>>} \subseteq viewing /\ UserOf[s] # UserOf[t]
      => UserOf[t] \in shown[s][d]

\* A client that has a document open is shown someone who has not only if that
\* one's connection went: a doc_close is always told.
CloseIsSeen ==
  \A s \in Sockets, d \in Docs :
    <<s, d>> \in viewing =>
      \A u \in shown[s][d] \ UsersIn(viewing, d) :
        \E t \in Sockets : conn[t] = "gone" /\ UserOf[t] = u

\* What a disconnect announces is what the socket has open, if the socket was
\* acked once: doc_open tracks what it joins, doc_close drops what it leaves.
TrackedIsOpen ==
  \A s \in Sockets :
    Connected(s) /\ acks[s] = 1 => tracked[s][cur[s]] = OpenDocs(s)

\* "Reuse the existing sid so the connect is idempotent" (_TolerantConnect): a
\* connect that is acked again leaves what the socket tracks as it was.
ConnectIdempotent ==
  [][\A s \in Sockets : AcceptedAgain(s) => tracked'[s][cur'[s]] = tracked[s][cur[s]]]_rtVars
=============================================================================
