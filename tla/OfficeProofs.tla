----------------------------- MODULE OfficeProofs -----------------------------
(***************************************************************************)
(* The parts of the back office, one after the other, each for any number  *)
(* of people, requests and rows: the internal chat, the leads, the network *)
(* alerts, the registers, the figures and the payment promises (the        *)
(* accounts have a module of their own). At the end, that a behaviour of   *)
(* the office is one of each part, and so keeps what is proved of each.    *)
(***************************************************************************)
EXTENDS Office, AccountsProofs, FiniteSetTheorems, SequenceTheorems

-----------------------------------------------------------------------------
(* The chat.                                                               *)

ChatRecords == [step : ChatSteps, who : SUBSET Staff, at : Stamps,
                invited : SUBSET Staff, found : SUBSET ChatRequests]
Posted == [id : ChatRequests, author : Staff, at : Stamps]

\* Who is at work, since when: no two requests took the same time stamp.
StampsDiffer ==
    /\ \A r \in ChatRequests : chatting[r].at <= stamps
    /\ \A r \in ChatRequests : chatting[r].step \in {"insert", "touch thread", "touch author", "mark"} => chatting[r].at > 0
    /\ \A q, r \in ChatRequests : q # r /\ chatting[q].at = chatting[r].at => chatting[q].at = 0

OneEach == \A r \in ChatRequests : chatting[r].step # "idle" => \E u \in Staff : chatting[r].who = {u}

\* A message is of the request that posted it, which is past its insert.
MessagesAreOfPosts ==
    \A m \in messages : /\ chatting[m.id].step \in {"touch thread", "touch author", "done"}
                        /\ m.at = chatting[m.id].at /\ m.at > 0 /\ chatting[m.id].who = {m.author}

\* A reading that is about to mark the thread has each message among its rows, or
\* the message came in meanwhile.
ReadersSawAll ==
    \A r \in ChatRequests : chatting[r].step = "mark" =>
        \A m \in messages : m.id \in chatting[r].found \/ \A u \in chatting[r].who : <<u, m.id>> \in missed

\* Nobody posts or reads before the participants are there, which are inserted once.
ThreadFirst ==
    /\ thread.author = {} => participants = {}
    /\ participants = {} => /\ messages = {}
                            /\ \A r \in ChatRequests : chatting[r].step \in {"idle", "participants", "done"}
    /\ \A r \in ChatRequests : chatting[r].step = "participants" => thread.author # {} /\ participants = {}
    /\ \A q, r \in ChatRequests : chatting[q].step = "participants" /\ chatting[r].step = "participants" => q = r

\* UnseenIsUnread, for whoever works here.
UnseenIsLater ==
    \A u \in Staff : \A m \in messages :
        m.author # u /\ m.id \notin shown[u] /\ <<u, m.id>> \notin missed => m.at > readAt[u]

ChatInv == /\ ChatTypeOK /\ StampsDiffer /\ OneEach /\ MessagesAreOfPosts
           /\ ReadersSawAll /\ ThreadFirst /\ UnseenIsLater

\* What the type invariant says of the time stamps.
LEMMA StampTypes ==
    ASSUME ChatTypeOK
    PROVE  /\ stamps \in Nat
           /\ \A r \in ChatRequests : /\ chatting[r] \in ChatRecords /\ chatting[r].at \in Stamps
                                      /\ chatting[r].at \in Nat /\ chatting[r].found \subseteq ChatRequests
           /\ \A m \in messages : m \in Posted /\ m.id \in ChatRequests /\ m.author \in Staff /\ m.at \in Nat
           /\ \A u \in Staff : readAt[u] \in Nat
<1>1. Stamps \subseteq Nat
  BY DEF Stamps
<1>2. stamps \in Nat
  BY <1>1 DEF ChatTypeOK
<1>3. ASSUME NEW r \in ChatRequests
      PROVE  /\ chatting[r] \in ChatRecords /\ chatting[r].at \in Stamps
             /\ chatting[r].at \in Nat /\ chatting[r].found \subseteq ChatRequests
  <2>1. chatting[r] \in ChatRecords
    BY <1>3 DEF ChatTypeOK, ChatRecords
  <2> QED BY <1>1, <2>1 DEF ChatRecords
<1>4. ASSUME NEW m \in messages PROVE m \in Posted /\ m.id \in ChatRequests /\ m.author \in Staff /\ m.at \in Nat
  <2>1. m \in Posted
    BY <1>4 DEF ChatTypeOK, Posted
  <2> QED BY <1>1, <2>1 DEF Posted
<1>5. \A u \in Staff : readAt[u] \in Nat
  BY <1>1 DEF ChatTypeOK
<1> QED BY <1>2, <1>3, <1>4, <1>5

LEMMA ChatInitially == ChatInit => ChatInv
<1> SUFFICES ASSUME ChatInit PROVE ChatInv
  OBVIOUS
<1>1. NewChat \in ChatRecords /\ 0 \in Stamps
  BY ChatAssumption DEF NewChat, ChatRecords, ChatSteps, Stamps
<1>2. \A r \in ChatRequests : chatting[r] = NewChat
  BY DEF ChatInit
<1>3. thread \in [author : SUBSET Staff, last : Stamps] /\ thread.author = {}
  BY <1>1 DEF ChatInit
<1>4. ChatTypeOK
  <2>1. chatting \in [ChatRequests -> ChatRecords]
    BY <1>1 DEF ChatInit
  <2> QED BY <1>1, <1>3, <2>1 DEF ChatInit, ChatTypeOK, ChatRecords
<1>5. StampsDiffer /\ OneEach /\ ReadersSawAll
  <2>1. stamps = 0 /\ \A r \in ChatRequests : chatting[r].step = "idle" /\ chatting[r].at = 0
    BY <1>2 DEF ChatInit, NewChat
  <2>2. \A r \in ChatRequests : chatting[r].at <= stamps
    BY <2>1
  <2>3. StampsDiffer
    BY <2>1, <2>2 DEF StampsDiffer
  <2> QED BY <2>1, <2>3 DEF OneEach, ReadersSawAll
<1>6. MessagesAreOfPosts /\ UnseenIsLater
  BY DEF ChatInit, MessagesAreOfPosts, UnseenIsLater
<1>7. ThreadFirst
  BY <1>2, <1>3 DEF ChatInit, NewChat, ThreadFirst
<1> QED BY <1>4, <1>5, <1>6, <1>7 DEF ChatInv

\* A request goes on with what it has.
GoesOnWith(r, s) ==
    /\ chatting' \in [ChatRequests -> ChatRecords]
    /\ chatting'[r].step = s /\ chatting'[r].who = chatting[r].who /\ chatting'[r].at = chatting[r].at
    /\ chatting'[r].found = chatting[r].found
    /\ \A q \in ChatRequests : q # r => chatting'[q] = chatting[q]

LEMMA Continuing ==
    ASSUME ChatTypeOK, NEW r \in ChatRequests, NEW s \in {"touch thread", "touch author", "done"}, Continues(r, s)
    PROVE  GoesOnWith(r, s)
<1> DEFINE c == chatting[r]
           new == [c EXCEPT !.step = s]
<1>1. c \in ChatRecords /\ chatting' = [chatting EXCEPT ![r] = new] /\ chatting \in [ChatRequests -> ChatRecords]
  BY DEF ChatTypeOK, ChatRecords, Continues
<1> HIDE DEF c
<1>2. new \in ChatRecords /\ new.step = s /\ new.who = c.who /\ new.at = c.at /\ new.found = c.found
  BY <1>1 DEF ChatRecords, ChatSteps
<1> HIDE DEF new
<1> QED BY <1>1, <1>2 DEF GoesOnWith, c

\* The invariant but for what a step does to the messages, the readings and the stamps.
LEMMA OthersStay ==
    ASSUME ChatInv, NEW r \in ChatRequests, NEW s \in {"touch thread", "touch author", "done"}, GoesOnWith(r, s),
           chatting[r].step # "idle", chatting[r].step # "insert" \/ s = "done",
           s # "done" => chatting[r].step \in {"insert", "touch thread"},
           UNCHANGED <<stamps, participants, messages>>, thread'.author = thread.author
    PROVE  StampsDiffer' /\ OneEach' /\ MessagesAreOfPosts' /\ ThreadFirst'
<1>0. ChatTypeOK
  BY DEF ChatInv
<1>1. StampsDiffer'
  <2>1. \A q \in ChatRequests : chatting'[q].at = chatting[q].at
    BY DEF GoesOnWith
  <2>2. \A q \in ChatRequests : chatting'[q].step \in {"insert", "touch thread", "touch author", "mark"}
            => chatting[q].step \in {"insert", "touch thread", "touch author", "mark"}
    BY DEF GoesOnWith
  <2> QED BY <2>1, <2>2 DEF ChatInv, StampsDiffer
<1>2. OneEach'
  BY DEF ChatInv, OneEach, GoesOnWith
<1>3. MessagesAreOfPosts'
  <2> SUFFICES ASSUME NEW m \in messages
               PROVE  /\ chatting'[m.id].step \in {"touch thread", "touch author", "done"}
                      /\ m.at = chatting'[m.id].at /\ m.at > 0 /\ chatting'[m.id].who = {m.author}
    BY DEF MessagesAreOfPosts
  <2>1. m.id \in ChatRequests
    BY <1>0 DEF ChatTypeOK
  <2> QED BY <2>1 DEF ChatInv, MessagesAreOfPosts, GoesOnWith
<1>4. ThreadFirst'
  BY DEF ChatInv, ThreadFirst, GoesOnWith
<1> QED BY <1>1, <1>2, <1>3, <1>4

\* A time stamp is later than all before it.
LEMMA StampIsLatest ==
    ASSUME ChatInv, Stamp
    PROVE  /\ stamps' \in Stamps /\ stamps' > 0 /\ stamps' = stamps + 1 /\ stamps \in Nat
           /\ \A q \in ChatRequests : chatting[q].at \in Nat /\ chatting[q].at < stamps'
<1>1. /\ stamps < MaxStamps /\ stamps' = stamps + 1 /\ ChatTypeOK
      /\ \A q \in ChatRequests : chatting[q].at <= stamps
  BY DEF ChatInv, StampsDiffer, Stamp
<1>2. stamps \in Nat /\ \A q \in ChatRequests : chatting[q].at \in Nat
  BY <1>1, StampTypes
<1>3. \A q \in ChatRequests : chatting[q].at < stamps'
  BY <1>1, <1>2
<1>4. stamps' \in Stamps
  BY <1>1, <1>2, ChatAssumption DEF Stamps
<1> QED BY <1>1, <1>2, <1>3, <1>4

\* A request that begins, or that takes the time anew, with a stamp or with none.
LEMMA NewsKeeps ==
    ASSUME ChatInv, NEW r \in ChatRequests, NEW new \in ChatRecords, chatting' = [chatting EXCEPT ![r] = new],
           chatting[r].step \in {"idle", "rows"}, new.step \in {"insert", "rows", "mark"},
           participants # {}, \E u \in Staff : new.who = {u},
           new.step = "rows" => new.at = 0 /\ UNCHANGED stamps,
           new.step \in {"insert", "mark"} => Stamp /\ new.at = stamps',
           new.step = "mark" => new.found = {m.id : m \in messages},
           UNCHANGED <<thread, readAt, participants, messages, shown, missed>>
    PROVE  ChatInv'
<1>0. ChatTypeOK /\ new.at \in Nat
  BY DEF ChatInv, ChatRecords, Stamps
<1>1. /\ chatting' \in [ChatRequests -> ChatRecords] /\ chatting'[r] = new
      /\ \A q \in ChatRequests : q # r => chatting'[q] = chatting[q]
  BY <1>0 DEF ChatTypeOK, ChatRecords
<1>2. stamps' \in Stamps
  BY <1>0, StampIsLatest DEF ChatTypeOK
<1>3. ChatTypeOK'
  BY <1>0, <1>1, <1>2 DEF ChatTypeOK, ChatRecords
<1>4. StampsDiffer'
  <2>1. \A q \in ChatRequests : chatting[q].at \in Nat
    BY <1>0 DEF ChatTypeOK, Stamps
  <2>2. CASE new.step = "rows"
    <3>1. new.at = 0 /\ stamps' = stamps /\ stamps \in Nat
      BY <1>0, <2>2 DEF ChatTypeOK, Stamps
    <3>2. \A q \in ChatRequests : chatting'[q].at <= stamps'
      <4>1. chatting'[r].at = 0 /\ \A q \in ChatRequests : chatting[q].at <= stamps
        BY <1>1, <3>1 DEF ChatInv, StampsDiffer
      <4> QED BY <1>1, <3>1, <4>1
    <3>3. \A q \in ChatRequests :
              chatting'[q].step \in {"insert", "touch thread", "touch author", "mark"} => chatting'[q].at > 0
      BY <1>1, <2>2 DEF ChatInv, StampsDiffer
    <3>4. \A q, s \in ChatRequests : q # s /\ chatting'[q].at = chatting'[s].at => chatting'[q].at = 0
      BY <1>1, <3>1 DEF ChatInv, StampsDiffer
    <3> QED BY <3>2, <3>3, <3>4 DEF StampsDiffer
  <2>3. CASE new.step \in {"insert", "mark"}
    <3>1. /\ new.at = stamps' /\ stamps' > 0 /\ stamps' = stamps + 1 /\ stamps \in Nat
          /\ \A q \in ChatRequests : chatting[q].at < stamps'
      BY <2>3, StampIsLatest
    <3>2. \A q \in ChatRequests : chatting'[q].at <= stamps'
      BY <1>1, <2>1, <3>1
    <3>3. \A q \in ChatRequests : q # r => chatting'[q].at # chatting'[r].at
      BY <1>1, <2>1, <3>1
    <3>4. \A q, s \in ChatRequests : q # s /\ chatting'[q].at = chatting'[s].at => chatting'[q].at = 0
      BY <1>1, <3>3 DEF ChatInv, StampsDiffer
    <3>5. \A q \in ChatRequests :
              chatting'[q].step \in {"insert", "touch thread", "touch author", "mark"} => chatting'[q].at > 0
      BY <1>1, <3>1 DEF ChatInv, StampsDiffer
    <3> QED BY <3>2, <3>4, <3>5 DEF StampsDiffer
  <2> QED BY <2>2, <2>3
<1>5. OneEach'
  BY <1>1 DEF ChatInv, OneEach
<1>6. \A m \in messages : m.id \in ChatRequests /\ m.id # r /\ chatting'[m.id] = chatting[m.id]
  BY <1>0, <1>1 DEF ChatInv, MessagesAreOfPosts, ChatTypeOK
<1>7. MessagesAreOfPosts' /\ UnseenIsLater'
  BY <1>6 DEF ChatInv, MessagesAreOfPosts, UnseenIsLater
<1>8. ReadersSawAll'
  BY <1>1 DEF ChatInv, ReadersSawAll
<1>9. ThreadFirst'
  BY <1>1 DEF ChatInv, ThreadFirst
<1> QED BY <1>3, <1>4, <1>5, <1>7, <1>8, <1>9 DEF ChatInv

LEMMA PostingKeeps ==
    ASSUME ChatInv, NEW r \in ChatRequests, NEW u \in Staff, Post(r, u) \/ OpenThread(r, u) \/ FetchRows(r)
    PROVE  ChatInv'
<1>0. ChatTypeOK /\ 0 \in Stamps
  BY ChatAssumption DEF ChatInv, Stamps
<1>1. CASE Post(r, u)
  <2> DEFINE new == [NewChat EXCEPT !.step = "insert", !.who = {u}, !.at = stamps']
  <2>1. /\ chatting[r].step = "idle" /\ participants # {} /\ Stamp /\ chatting' = [chatting EXCEPT ![r] = new]
        /\ UNCHANGED <<thread, readAt, participants, messages, shown, missed>>
    BY <1>1 DEF Post
  <2>2. stamps' \in Stamps
    BY <2>1, StampIsLatest
  <2>3. new \in ChatRecords /\ new.step = "insert" /\ new.who = {u} /\ new.at = stamps'
    BY <2>2 DEF ChatRecords, NewChat, ChatSteps
  <2> HIDE DEF new
  <2> QED BY <2>1, <2>3, NewsKeeps
<1>2. CASE OpenThread(r, u)
  <2> DEFINE new == [NewChat EXCEPT !.step = "rows", !.who = {u}]
  <2>1. /\ chatting[r].step = "idle" /\ participants # {} /\ chatting' = [chatting EXCEPT ![r] = new]
        /\ UNCHANGED <<stamps, thread, readAt, participants, messages, shown, missed>>
    BY <1>2 DEF OpenThread
  <2>2. new \in ChatRecords /\ new.step = "rows" /\ new.who = {u} /\ new.at = 0
    BY <1>0 DEF ChatRecords, NewChat, ChatSteps
  <2> HIDE DEF new
  <2> QED BY <2>1, <2>2, NewsKeeps
<1>3. CASE FetchRows(r)
  <2> DEFINE c == chatting[r]
             found == {m.id : m \in messages}
             now == stamps'
             new == [c EXCEPT !.step = "mark", !.at = now, !.found = found]
  <2>1. /\ c.step = "rows" /\ Stamp /\ chatting' = [chatting EXCEPT ![r] = new]
        /\ UNCHANGED <<thread, readAt, participants, messages, shown, missed>>
    BY <1>0, <1>3 DEF FetchRows, ChatTypeOK
  <2>2. now \in Stamps /\ found \subseteq ChatRequests /\ c \in ChatRecords
    <3>1. now \in Stamps
      BY <2>1, StampIsLatest
    <3>2. c \in ChatRecords /\ \A m \in messages : m.id \in ChatRequests
      BY <1>0, StampTypes
    <3>3. found \subseteq ChatRequests
      BY <3>2
    <3> QED BY <3>1, <3>2, <3>3
  <2>3. participants # {} /\ \E v \in Staff : c.who = {v}
    BY <2>1 DEF ChatInv, ThreadFirst, OneEach
  <2> HIDE DEF c, found, now
  <2>4. new \in ChatRecords /\ new.step = "mark" /\ new.who = c.who /\ new.at = now /\ new.found = found
    BY <2>2 DEF ChatRecords, ChatSteps
  <2> HIDE DEF new
  <2> QED BY <2>1, <2>3, <2>4, NewsKeeps DEF c, now, found
<1> QED BY <1>1, <1>2, <1>3

LEMMA CreatingKeepsChat ==
    ASSUME ChatInv, NEW r \in ChatRequests, NEW u \in Staff, NEW invited \in SUBSET Staff, CreateThread(r, u, invited)
    PROVE  ChatInv'
<1> DEFINE new == [NewChat EXCEPT !.step = "participants", !.who = {u}, !.at = stamps', !.invited = {u} \union invited]
<1>1. /\ chatting[r].step = "idle" /\ thread.author = {} /\ Stamp
      /\ thread' = [author |-> {u}, last |-> stamps'] /\ chatting' = [chatting EXCEPT ![r] = new]
      /\ UNCHANGED <<readAt, participants, messages, shown, missed>> /\ ChatTypeOK
  BY DEF CreateThread, ChatInv
<1>2. /\ stamps' \in Stamps /\ stamps' > 0 /\ stamps' = stamps + 1 /\ stamps \in Nat
      /\ \A q \in ChatRequests : chatting[q].at \in Nat /\ chatting[q].at < stamps'
  BY <1>1, StampIsLatest
<1>3. new \in ChatRecords /\ new.step = "participants" /\ new.who = {u} /\ new.at = stamps'
  BY <1>2 DEF ChatRecords, NewChat, ChatSteps
<1> HIDE DEF new
<1>4. /\ chatting' \in [ChatRequests -> ChatRecords] /\ chatting'[r] = new
      /\ \A q \in ChatRequests : q # r => chatting'[q] = chatting[q]
  BY <1>1, <1>3 DEF ChatTypeOK, ChatRecords
<1>5. thread' \in [author : SUBSET Staff, last : Stamps] /\ thread'.author # {}
  BY <1>1, <1>2
<1>6. ChatTypeOK'
  BY <1>1, <1>2, <1>4, <1>5 DEF ChatTypeOK, ChatRecords
<1>7. participants = {} /\ messages = {} /\ \A q \in ChatRequests : chatting[q].step \in {"idle", "done"}
  BY <1>1 DEF ChatInv, ThreadFirst
<1>8. ThreadFirst'
  BY <1>1, <1>3, <1>4, <1>5, <1>7 DEF ThreadFirst
<1>9. OneEach' /\ MessagesAreOfPosts' /\ ReadersSawAll' /\ UnseenIsLater'
  BY <1>1, <1>3, <1>4, <1>7 DEF ChatInv, OneEach, MessagesAreOfPosts, ReadersSawAll, UnseenIsLater
<1>10. StampsDiffer'
  <2>1. \A q \in ChatRequests : chatting'[q].at <= stamps'
    BY <1>2, <1>3, <1>4
  <2>2. \A q \in ChatRequests : q # r => chatting'[q].at # chatting'[r].at
    BY <1>2, <1>3, <1>4
  <2>3. \A q, s \in ChatRequests : q # s /\ chatting'[q].at = chatting'[s].at => chatting'[q].at = 0
    BY <1>4, <2>2 DEF ChatInv, StampsDiffer
  <2>4. \A q \in ChatRequests : chatting'[q].step \notin {"insert", "touch thread", "touch author", "mark"}
    BY <1>3, <1>4, <1>7
  <2> QED BY <2>1, <2>3, <2>4 DEF StampsDiffer
<1> QED BY <1>6, <1>8, <1>9, <1>10 DEF ChatInv

\* The steps that read nobody's time and write no message.
LEMMA ThreadStepKeeps ==
    ASSUME ChatInv, NEW r \in ChatRequests, TouchThread(r) \/ ChatFails(r)
    PROVE  ChatInv'
<1>1. PICK s \in {"touch author", "done"} :
          /\ Continues(r, s) /\ thread'.author = thread.author
          /\ chatting[r].step \notin {"idle", "done"}
          /\ s = "touch author" => chatting[r].step = "touch thread"
          /\ thread' \in [author : SUBSET Staff, last : Stamps]
          /\ UNCHANGED <<stamps, readAt, participants, messages, shown, missed>>
  <2>1. CASE TouchThread(r)
    <3>1. chatting[r].at \in Stamps /\ thread \in [author : SUBSET Staff, last : Stamps]
      BY DEF ChatInv, ChatTypeOK
    <3>2. thread' \in [author : SUBSET Staff, last : Stamps] /\ thread'.author = thread.author
      BY <2>1, <3>1 DEF TouchThread
    <3> QED BY <2>1, <3>2 DEF TouchThread
  <2>2. CASE ChatFails(r)
    BY <2>2 DEF ChatFails, ChatInv, ChatTypeOK
  <2> QED BY <2>1, <2>2
<1>2. GoesOnWith(r, s) /\ ChatTypeOK
  BY <1>1, Continuing DEF ChatInv
<1>3. ChatTypeOK'
  BY <1>1, <1>2 DEF ChatTypeOK, GoesOnWith, ChatRecords
<1>4. StampsDiffer' /\ OneEach' /\ MessagesAreOfPosts' /\ ThreadFirst'
  BY <1>1, <1>2, OthersStay
<1>5. UnseenIsLater' /\ ReadersSawAll'
  BY <1>1, <1>2 DEF ChatInv, UnseenIsLater, ReadersSawAll, GoesOnWith
<1> QED BY <1>3, <1>4, <1>5 DEF ChatInv

LEMMA AddingKeeps == ASSUME ChatInv, NEW r \in ChatRequests, AddParticipants(r) PROVE ChatInv'
<1>1. /\ chatting[r].step = "participants" /\ participants' = chatting[r].invited /\ Continues(r, "done")
      /\ readAt' = [u \in Staff |-> IF u \in chatting[r].who THEN chatting[r].at ELSE 0]
      /\ UNCHANGED <<stamps, thread, messages, shown, missed>> /\ ChatTypeOK
  BY DEF AddParticipants, ChatInv
<1>2. /\ messages = {} /\ thread.author # {} /\ participants = {}
      /\ \A q \in ChatRequests : chatting[q].step \in {"idle", "participants", "done"}
      /\ \A q \in ChatRequests : chatting[q].step = "participants" => q = r
  BY <1>1 DEF ChatInv, ThreadFirst
<1>3. GoesOnWith(r, "done")
  BY <1>1, Continuing
<1>4. chatting[r].at \in Stamps /\ 0 \in Stamps /\ chatting[r].invited \subseteq Staff
  BY <1>1, ChatAssumption DEF ChatTypeOK, Stamps
<1>5. ChatTypeOK'
  <2>1. readAt' \in [Staff -> Stamps]
    BY <1>1, <1>4
  <2> QED BY <1>1, <1>3, <1>4, <2>1 DEF ChatTypeOK, GoesOnWith, ChatRecords
<1>6. ThreadFirst'
  BY <1>1, <1>2, <1>3 DEF ThreadFirst, GoesOnWith
<1>7. OneEach' /\ MessagesAreOfPosts' /\ ReadersSawAll' /\ UnseenIsLater'
  BY <1>1, <1>2, <1>3 DEF ChatInv, OneEach, MessagesAreOfPosts, ReadersSawAll, UnseenIsLater, GoesOnWith
<1>8. StampsDiffer'
  <2>1. \A q \in ChatRequests : chatting'[q].at = chatting[q].at
    BY <1>3 DEF GoesOnWith
  <2>2. \A q \in ChatRequests : chatting'[q].step \notin {"insert", "touch thread", "touch author", "mark"}
    BY <1>2, <1>3 DEF GoesOnWith
  <2> QED BY <1>1, <2>1, <2>2 DEF ChatInv, StampsDiffer
<1> QED BY <1>5, <1>6, <1>7, <1>8 DEF ChatInv

LEMMA MessageKeeps == ASSUME ChatInv, NEW r \in ChatRequests, InsertMessage(r) PROVE ChatInv'
<1> DEFINE now == chatting[r].at
<1>1. /\ chatting[r].step = "insert" /\ Continues(r, "touch thread")
      /\ messages' = messages \union {[id |-> r, author |-> u, at |-> now] : u \in chatting[r].who}
      /\ missed' = missed \union
           {<<u, r>> : u \in {v \in Staff : \/ readAt[v] >= now
                                            \/ \E q \in Reading("mark") \union Reading("touch author") :
                                                  v \in chatting[q].who}}
      /\ UNCHANGED <<stamps, thread, readAt, participants, shown>> /\ ChatTypeOK
  BY DEF InsertMessage, ChatInv
<1>2. GoesOnWith(r, "touch thread")
  BY <1>1, Continuing
<1>3. PICK u \in Staff : chatting[r].who = {u}
  BY <1>1 DEF ChatInv, OneEach
<1> DEFINE new == [id |-> r, author |-> u, at |-> now]
<1>4. now \in Stamps /\ now \in Nat /\ now > 0 /\ new \in Posted /\ new.id = r /\ new.author = u /\ new.at = now
  <2>1. now \in Stamps /\ now \in Nat /\ now > 0
    BY <1>1, StampTypes DEF ChatInv, StampsDiffer
  <2> HIDE DEF now
  <2> QED BY <1>3, <2>1 DEF Posted
<1>5. messages' = messages \union {new}
  BY <1>1, <1>3
<1>6. \A m \in messages : m.id \in ChatRequests /\ m.id # r
  BY <1>1 DEF ChatInv, MessagesAreOfPosts, ChatTypeOK
<1>7. /\ missed \subseteq missed' /\ missed' \subseteq Staff \X ChatRequests
      /\ \A v \in Staff : readAt[v] >= now => <<v, r>> \in missed'
      /\ \A q \in ChatRequests : chatting[q].step = "mark" => \A v \in chatting[q].who : <<v, r>> \in missed'
  <2>1. \A q \in ChatRequests : chatting[q].who \subseteq Staff
    BY <1>1 DEF ChatTypeOK
  <2>2. \A q \in ChatRequests : chatting[q].step = "mark" => q \in Reading("mark")
    BY DEF Reading
  <2>3. missed \subseteq Staff \X ChatRequests
    BY <1>1 DEF ChatTypeOK
  <2> HIDE DEF new, now
  <2>4. missed \subseteq missed' /\ \A v \in Staff : readAt[v] >= now => <<v, r>> \in missed'
    BY <1>1
  <2>5. missed' \subseteq Staff \X ChatRequests
    <3> DEFINE late == {v \in Staff : \/ readAt[v] >= now
                                      \/ \E q \in Reading("mark") \union Reading("touch author") :
                                            v \in chatting[q].who}
    <3>1. late \subseteq Staff /\ missed' = missed \union {<<v, r>> : v \in late}
      BY <1>1
    <3> HIDE DEF late
    <3> QED BY <2>3, <3>1
  <2>6. ASSUME NEW q \in ChatRequests, chatting[q].step = "mark", NEW v \in chatting[q].who
        PROVE  <<v, r>> \in missed'
    <3>1. v \in Staff /\ q \in Reading("mark") \union Reading("touch author")
      BY <2>1, <2>2, <2>6
    <3> QED BY <1>1, <2>6, <3>1
  <2> QED BY <2>4, <2>5, <2>6
<1> HIDE DEF new, now
<1>8. ChatTypeOK'
  BY <1>1, <1>2, <1>4, <1>5, <1>7 DEF ChatTypeOK, GoesOnWith, ChatRecords, Posted
<1>9. StampsDiffer'
  <2>1. \A q \in ChatRequests : chatting'[q].at = chatting[q].at
    BY <1>2 DEF GoesOnWith
  <2>2. \A q \in ChatRequests : chatting'[q].step \in {"insert", "touch thread", "touch author", "mark"}
            => chatting[q].step \in {"insert", "touch thread", "touch author", "mark"}
    BY <1>1, <1>2 DEF GoesOnWith
  <2> QED BY <1>1, <2>1, <2>2 DEF ChatInv, StampsDiffer
<1>10. OneEach'
  BY <1>1, <1>2 DEF ChatInv, OneEach, GoesOnWith
<1>11. MessagesAreOfPosts'
  <2>1. \A m \in messages : chatting'[m.id] = chatting[m.id]
    BY <1>2, <1>6 DEF GoesOnWith
  <2>2. /\ chatting'[new.id].step = "touch thread" /\ new.at = chatting'[new.id].at /\ new.at > 0
        /\ chatting'[new.id].who = {new.author}
    BY <1>2, <1>3, <1>4 DEF GoesOnWith, now
  <2> QED BY <1>5, <2>1, <2>2 DEF ChatInv, MessagesAreOfPosts
<1>12. ReadersSawAll'
  <2> SUFFICES ASSUME NEW q \in ChatRequests, chatting'[q].step = "mark", NEW m \in messages'
               PROVE  m.id \in chatting'[q].found \/ \A v \in chatting'[q].who : <<v, m.id>> \in missed'
    BY DEF ReadersSawAll
  <2>1. q # r /\ chatting'[q] = chatting[q]
    BY <1>2 DEF GoesOnWith
  <2>2. CASE m \in messages
    BY <1>7, <2>1, <2>2 DEF ChatInv, ReadersSawAll
  <2>3. CASE m = new
    BY <1>4, <1>7, <2>1, <2>3
  <2> QED BY <1>5, <2>2, <2>3
<1>13. ThreadFirst'
  <2>1. participants # {}
    BY <1>1 DEF ChatInv, ThreadFirst
  <2> QED BY <1>1, <1>2, <2>1 DEF ChatInv, ThreadFirst, GoesOnWith
<1>14. UnseenIsLater'
  <2> SUFFICES ASSUME NEW v \in Staff, NEW m \in messages',
                      m.author # v, m.id \notin shown[v], <<v, m.id>> \notin missed'
               PROVE  m.at > readAt[v]
    BY <1>1 DEF UnseenIsLater
  <2>1. CASE m \in messages
    BY <1>7, <2>1 DEF ChatInv, UnseenIsLater
  <2>2. CASE m = new
    <3>1. readAt[v] \in Nat /\ ~(readAt[v] >= now)
      <4>1. readAt[v] \in Nat
        BY <1>1, StampTypes
      <4> QED BY <1>4, <1>7, <2>2, <4>1
    <3> QED BY <1>4, <2>2, <3>1
  <2> QED BY <1>5, <2>1, <2>2
<1> QED BY <1>8, <1>9, <1>10, <1>11, <1>12, <1>13, <1>14 DEF ChatInv

\* A person's time of reading moves on: by their own post, or by a reading.
LEMMA MarkingKeeps ==
    ASSUME ChatInv, NEW r \in ChatRequests, TouchAuthor(r) \/ MarkRead(r)
    PROVE  ChatInv'
<1> DEFINE now == chatting[r].at
<1>1. /\ chatting[r].step \in {"touch author", "mark"} /\ Continues(r, "done") /\ SetsReadAt(r)
      /\ UNCHANGED <<stamps, thread, participants, messages>> /\ ChatTypeOK
  <2>1. ChatTypeOK
    BY DEF ChatInv
  <2>2. CASE TouchAuthor(r)
    BY <2>1, <2>2 DEF TouchAuthor
  <2>3. CASE MarkRead(r)
    BY <2>1, <2>3 DEF MarkRead
  <2> QED BY <2>2, <2>3
<1>2. GoesOnWith(r, "done")
  BY <1>1, Continuing
<1>3. PICK u \in Staff : chatting[r].who = {u}
  BY <1>1 DEF ChatInv, OneEach
<1>4. /\ readAt' \in [Staff -> Stamps] /\ readAt'[u] = now
      /\ \A v \in Staff : v # u => readAt'[v] = readAt[v]
  BY <1>1, <1>3 DEF SetsReadAt, ChatTypeOK
<1>5. /\ \A m \in messages : m \in Posted /\ m.at \in Nat /\ m.id \in ChatRequests
      /\ now \in Nat /\ now > 0 /\ chatting[r].found \subseteq ChatRequests
  <2>1. \A m \in messages : m \in Posted /\ m.at \in Nat /\ m.id \in ChatRequests
    BY <1>1, StampTypes
  <2>2. now \in Nat /\ chatting[r].found \subseteq ChatRequests
    BY <1>1, StampTypes
  <2>3. now > 0
    BY <1>1 DEF ChatInv, StampsDiffer
  <2> QED BY <2>1, <2>2, <2>3
<1>6. CASE TouchAuthor(r)
  <2>1. /\ missed' = missed \union (chatting[r].who \X {m.id : m \in {n \in messages : n.at < now}})
        /\ UNCHANGED shown /\ chatting[r].step = "touch author"
    <3> HIDE DEF now
    <3>1. missed' = missed \union (chatting[r].who \X {m.id : m \in {n \in messages : n.at < now}})
      BY <1>6 DEF TouchAuthor, now
    <3>2. UNCHANGED shown /\ chatting[r].step = "touch author"
      BY <1>6 DEF TouchAuthor
    <3> QED BY <3>1, <3>2
  <2>2. /\ missed \subseteq missed' /\ missed' \subseteq Staff \X ChatRequests
        /\ \A m \in messages : m.at < now => <<u, m.id>> \in missed'
    <3> HIDE DEF now
    <3>1. missed \subseteq Staff \X ChatRequests
      BY <1>1 DEF ChatTypeOK
    <3> DEFINE older == {m.id : m \in {n \in messages : n.at < now}}
    <3>2. older \subseteq ChatRequests /\ \A m \in messages : m.at < now => m.id \in older
      BY <1>5
    <3>3. missed' = missed \union ({u} \X older)
      BY <1>3, <2>1
    <3> HIDE DEF older
    <3> QED BY <3>1, <3>2, <3>3
  <2> HIDE DEF now
  <2>3. ChatTypeOK'
    BY <1>1, <1>2, <1>4, <2>1, <2>2 DEF ChatTypeOK, GoesOnWith, ChatRecords
  <2>4. \A m \in messages : m.at = now => m.author = u
    <3> SUFFICES ASSUME NEW m \in messages, m.at = now PROVE m.author = u
      OBVIOUS
    <3>1. chatting[m.id].at = chatting[r].at /\ chatting[r].at # 0 /\ m.id \in ChatRequests
      <4>1. m.at = chatting[m.id].at /\ m.at > 0
        BY DEF ChatInv, MessagesAreOfPosts
      <4> QED BY <1>5, <4>1 DEF now
    <3>2. m.id = r
      BY <3>1 DEF ChatInv, StampsDiffer
    <3> QED BY <1>3, <3>2 DEF ChatInv, MessagesAreOfPosts
  <2>5. UnseenIsLater'
    <3> SUFFICES ASSUME NEW v \in Staff, NEW m \in messages,
                        m.author # v, m.id \notin shown[v], <<v, m.id>> \notin missed'
                 PROVE  m.at > readAt'[v]
      BY <1>1, <2>1 DEF UnseenIsLater
    <3>1. CASE v = u
      BY <1>4, <1>5, <2>2, <2>4, <3>1
    <3>2. CASE v # u
      BY <1>4, <2>2, <3>2 DEF ChatInv, UnseenIsLater
    <3> QED BY <3>1, <3>2
  <2>6. ReadersSawAll'
    BY <1>1, <1>2, <2>2 DEF ChatInv, ReadersSawAll, GoesOnWith
  <2>7. StampsDiffer' /\ OneEach' /\ MessagesAreOfPosts' /\ ThreadFirst'
    BY <1>1, <1>2, OthersStay
  <2> QED BY <2>3, <2>5, <2>6, <2>7 DEF ChatInv
<1>7. CASE MarkRead(r)
  <2>1. /\ shown' = [v \in Staff |-> IF v \in chatting[r].who THEN shown[v] \union chatting[r].found ELSE shown[v]]
        /\ UNCHANGED missed /\ chatting[r].step = "mark"
    BY <1>7 DEF MarkRead
  <2>2. shown' \in [Staff -> SUBSET ChatRequests] /\ \A v \in Staff : shown[v] \subseteq shown'[v]
    BY <1>1, <1>5, <2>1 DEF ChatTypeOK
  <2>3. ChatTypeOK'
    BY <1>1, <1>2, <1>4, <2>1, <2>2 DEF ChatTypeOK, GoesOnWith, ChatRecords
  <2>4. \A m \in messages : m.id \in shown'[u] \/ <<u, m.id>> \in missed
    BY <1>3, <2>1 DEF ChatInv, ReadersSawAll
  <2>5. UnseenIsLater'
    <3> SUFFICES ASSUME NEW v \in Staff, NEW m \in messages,
                        m.author # v, m.id \notin shown'[v], <<v, m.id>> \notin missed
                 PROVE  m.at > readAt'[v]
      BY <1>1, <2>1 DEF UnseenIsLater
    <3>1. v # u /\ m.id \notin shown[v]
      BY <2>2, <2>4
    <3> QED BY <1>4, <3>1 DEF ChatInv, UnseenIsLater
  <2>6. ReadersSawAll'
    BY <1>1, <1>2, <2>1 DEF ChatInv, ReadersSawAll, GoesOnWith
  <2>7. StampsDiffer' /\ OneEach' /\ MessagesAreOfPosts' /\ ThreadFirst'
    BY <1>1, <1>2, OthersStay
  <2> QED BY <2>3, <2>5, <2>6, <2>7 DEF ChatInv
<1> QED BY <1>6, <1>7

LEMMA ChatStepKeeps == ASSUME ChatInv, [ChatNext]_chatVars PROVE ChatInv'
<1>1. CASE UNCHANGED chatVars
  BY <1>1 DEF chatVars, ChatInv, ChatTypeOK, StampsDiffer, OneEach, MessagesAreOfPosts, ReadersSawAll, ThreadFirst,
              UnseenIsLater
<1>2. ASSUME NEW r \in ChatRequests, NEW u \in Staff,
             Post(r, u) \/ OpenThread(r, u) \/ \E i \in SUBSET Staff : CreateThread(r, u, i)
      PROVE  ChatInv'
  BY <1>2, PostingKeeps, CreatingKeepsChat
<1>3. ASSUME NEW r \in ChatRequests,
             \/ AddParticipants(r) \/ InsertMessage(r) \/ TouchThread(r) \/ TouchAuthor(r)
             \/ MarkRead(r) \/ ChatFails(r)
      PROVE  ChatInv'
  BY <1>3, AddingKeeps, MessageKeeps, ThreadStepKeeps, MarkingKeeps
<1>4. ASSUME NEW r \in ChatRequests, FetchRows(r) PROVE ChatInv'
  <2>1. \E u \in Staff : TRUE
    BY <1>4 DEF FetchRows, ChatInv, OneEach
  <2> QED BY <1>4, <2>1, PostingKeeps
<1> QED BY <1>1, <1>2, <1>3, <1>4 DEF ChatNext

\* However many people post and read at once: what a participant was not shown counts as
\* unread for them, with the exceptions the property names.
THEOREM UnreadIsCounted == ChatSpec => []UnseenIsUnread
<1>1. ChatInv => UnseenIsUnread
  BY DEF ChatInv, ChatTypeOK, UnseenIsLater, UnseenIsUnread, Unread
<1> QED BY <1>1, ChatInitially, ChatStepKeeps, PTL DEF ChatSpec

-----------------------------------------------------------------------------
(* Leads.                                                                  *)

Sales == [step : LeadSteps, about : SUBSET LeadIds, says : Identifications,
          from : LeadStages \union {"none"}, to : LeadStages \union {"none"}]
LeadRows == [lead : LeadIds, from : LeadStages \union {"none"}, to : LeadStages]
Moves == {"update", "log"}

\* A request is about one lead, and what it is to create by hand is not there before.
SalesAreOfOne ==
    \A r \in LeadRequests : /\ selling[r].step # "idle" => \E l \in LeadIds : selling[r].about = {l}
                            /\ selling[r].step = "idle" => lead[r].stage = "none"

\* Only a lead that exists moves, and before it exists it has no history.
MovesAreOfLeads ==
    /\ \A r \in LeadRequests : selling[r].step \in Moves =>
          selling[r].to \in LeadStages /\ \A l \in selling[r].about : lead[l].stage # "none"
    /\ \A l \in LeadIds : lead[l].stage = "none" => \A i \in 1 .. Len(history) : history[i].lead # l

\* The history of a lead is a chain up to the stage it is in, or that it leaves
\* in the one move that is under way.
ChainOf(l) == \A i \in 1 .. Len(history) : history[i].lead = l => LeaveIn(i-1, l, history[i].from)
Moving(r, l) == l \in selling[r].about /\ selling[r].step \in Moves
LatestOf(l) ==
    /\ \A q, r \in LeadRequests : Moving(q, l) /\ Moving(r, l) => q = r
    /\ (\A r \in LeadRequests : ~Moving(r, l)) => LeaveIn(Len(history), l, lead[l].stage)
    /\ \A r \in LeadRequests : Moving(r, l) =>
          /\ LeaveIn(Len(history), l, selling[r].from)
          /\ selling[r].step = "update" => selling[r].from = lead[l].stage
          /\ selling[r].step = "log" => selling[r].to = lead[l].stage
HistoryTells == \A l \in LeadIds \ tangled : ChainOf(l) /\ LatestOf(l)

\* Whoever is about to become a lead, or may by what the ticket says, was asked about.
Asked(c) == c \in toldNobody /\ knownAs[c] # "customer"
MayBeLead(r) == \/ selling[r].step = "insert"
                \/ selling[r].step \in {"save", "capture"} /\ selling[r].says = "not_found"
CapturesAreAsked ==
    \A c \in Contacts : /\ lead[c].stage # "none" \/ ticketSays[c] = "not_found" => Asked(c)
                        /\ \A r \in LeadRequests : c \in selling[r].about /\ MayBeLead(r) => Asked(c)

LeadInv == LeadTypeOK /\ SalesAreOfOne /\ MovesAreOfLeads /\ HistoryTells /\ CapturesAreAsked

LEMMA LeadInitially == LeadInit => LeadInv
<1> SUFFICES ASSUME LeadInit PROVE LeadInv
  OBVIOUS
<1>1. NewSale \in Sales /\ NewSale.step = "idle" /\ NewSale.about = {}
  BY DEF NewSale, Sales, LeadSteps, Identifications
<1>2. \A r \in LeadRequests : selling[r] = NewSale
  BY DEF LeadInit
<1>3. /\ lead \in [LeadIds -> [stage : LeadStages \union {"none"}, closed : BOOLEAN]]
      /\ \A l \in LeadIds : lead[l].stage = "none"
      /\ history = <<>> /\ Len(history) = 0
  BY DEF LeadInit
<1>4. LeadTypeOK
  <2>1. selling \in [LeadRequests -> Sales]
    BY <1>1 DEF LeadInit
  <2> QED BY <1>3, <2>1 DEF LeadInit, LeadTypeOK, Sales, Identifications
<1>5. SalesAreOfOne /\ MovesAreOfLeads
  BY <1>1, <1>2, <1>3 DEF SalesAreOfOne, MovesAreOfLeads, Moves, LeadIds
<1>6. HistoryTells
  BY <1>1, <1>2, <1>3 DEF HistoryTells, ChainOf, LatestOf, Moving, LeaveIn
<1>7. CapturesAreAsked
  BY <1>1, <1>2, <1>3 DEF CapturesAreAsked, LeadInit, LeadIds, MayBeLead
<1> QED BY <1>4, <1>5, <1>6, <1>7 DEF LeadInv

\* What the type invariant says of a request.
LEMMA SaleTypes ==
    ASSUME LeadTypeOK, NEW r \in LeadRequests
    PROVE  /\ selling \in [LeadRequests -> Sales] /\ selling[r] \in Sales /\ r \in LeadIds
           /\ Len(history) \in Nat
  BY DEF LeadTypeOK, Sales, LeadIds

\* A request goes from its record to this one.
SaleBecomes(r, new) ==
    /\ selling' \in [LeadRequests -> Sales] /\ selling'[r] = new
    /\ \A q \in LeadRequests : q # r => selling'[q] = selling[q]

LEMMA OneSaleChanges ==
    ASSUME LeadTypeOK, NEW r \in LeadRequests, NEW new \in Sales, selling' = [selling EXCEPT ![r] = new]
    PROVE  SaleBecomes(r, new)
<1>1. selling \in [LeadRequests -> Sales]
  BY SaleTypes
<1> QED BY ONLY <1>1, r \in LeadRequests, new \in Sales, selling' = [selling EXCEPT ![r] = new] DEF SaleBecomes

\* A request that goes on to another step with what it has.
LEMMA SaleGoesOn ==
    ASSUME LeadTypeOK, NEW r \in LeadRequests, NEW step \in LeadSteps, Resumes(r, step)
    PROVE  \E new \in Sales : /\ SaleBecomes(r, new) /\ new.step = step /\ new.about = selling[r].about
                              /\ new.says = selling[r].says /\ new.from = selling[r].from /\ new.to = selling[r].to
<1> DEFINE s == selling[r]
           new == [s EXCEPT !.step = step]
<1>1. s \in Sales /\ selling' = [selling EXCEPT ![r] = new]
  BY SaleTypes DEF Resumes
<1> HIDE DEF s
<1>2. new \in Sales /\ new.step = step /\ new.about = s.about /\ new.says = s.says /\ new.from = s.from /\ new.to = s.to
  BY <1>1 DEF Sales
<1> HIDE DEF new
<1> QED BY <1>1, <1>2, OneSaleChanges DEF s

\* A step of a request that moves no lead, before or after it.
LEMMA QuietSaleKeeps ==
    ASSUME LeadInv, NEW r \in LeadRequests, NEW new \in Sales, SaleBecomes(r, new),
           selling[r].step \notin Moves, new.step \notin Moves \union {"idle"}, \E l \in LeadIds : new.about = {l},
           UNCHANGED <<lead, history, tangled>>
    PROVE  SalesAreOfOne' /\ MovesAreOfLeads' /\ HistoryTells'
<1>1. SalesAreOfOne'
  BY DEF LeadInv, SalesAreOfOne, SaleBecomes
<1>2. MovesAreOfLeads'
  BY DEF LeadInv, MovesAreOfLeads, SaleBecomes
<1>3. \A q \in LeadRequests, l \in LeadIds : Moving(q, l)' = Moving(q, l)
  BY DEF Moving, SaleBecomes
<1>4. \A q \in LeadRequests, l \in LeadIds : Moving(q, l) => selling'[q] = selling[q]
  BY DEF Moving, SaleBecomes
<1>5. ASSUME NEW l \in LeadIds \ tangled PROVE ChainOf(l)' /\ LatestOf(l)'
  <2>1. ChainOf(l) /\ LatestOf(l)
    BY DEF LeadInv, HistoryTells
  <2>2. ChainOf(l)'
    BY <2>1 DEF ChainOf, LeaveIn
  <2>3. LatestOf(l)'
    BY <1>3, <1>4, <2>1 DEF LatestOf, LeaveIn
  <2> QED BY <2>2, <2>3
<1> QED BY <1>1, <1>2, <1>5 DEF HistoryTells

Doubtless(new) == new.step = "insert" \/ (new.step \in {"save", "capture"} /\ new.says = "not_found")

LEMMA CapturingKeeps ==
    ASSUME LeadInv, NEW r \in LeadRequests, NEW new \in Sales, SaleBecomes(r, new),
           selling[r].step \notin Moves, new.step \notin Moves \union {"idle"}, \E l \in LeadIds : new.about = {l},
           UNCHANGED <<knownAs, lead, history, tangled>>,
           toldNobody \subseteq toldNobody', toldNobody' \subseteq Contacts,
           ticketSays' \in [Contacts -> Identifications],
           \A c \in Contacts : ticketSays'[c] = "not_found" => ticketSays[c] = "not_found" \/ Asked(c)',
           \A c \in Contacts : c \in new.about /\ Doubtless(new) => Asked(c)'
    PROVE  LeadInv'
<1>1. LeadTypeOK'
  BY DEF LeadInv, LeadTypeOK, SaleBecomes, Sales
<1>2. SalesAreOfOne' /\ MovesAreOfLeads' /\ HistoryTells'
  BY QuietSaleKeeps
<1>3. \A c \in Contacts : Asked(c) => Asked(c)'
  BY DEF Asked
<1>4. \A q \in LeadRequests : q # r => selling'[q] = selling[q] /\ MayBeLead(q)' = MayBeLead(q)
  BY DEF SaleBecomes, MayBeLead
<1>5. MayBeLead(r)' = Doubtless(new) /\ selling'[r] = new
  BY DEF SaleBecomes, MayBeLead, Doubtless
<1>6. CapturesAreAsked'
  BY <1>3, <1>4, <1>5 DEF LeadInv, CapturesAreAsked
<1> QED BY <1>1, <1>2, <1>6 DEF LeadInv

LEMMA TriageKeepsLeads ==
    ASSUME LeadInv, NEW r \in LeadRequests, NEW c \in Contacts, TriageReads(r, c) PROVE LeadInv'
<1> DEFINE next == IF ticketSays[c] \in {"identified", "not_found"} THEN "capture" ELSE "lookup"
           says == ticketSays[c]
           new == [NewSale EXCEPT !.about = {c}, !.says = says, !.step = next]
<1>1. /\ LeadTypeOK /\ selling[r].step = "idle" /\ selling' = [selling EXCEPT ![r] = new]
      /\ UNCHANGED <<knownAs, ticketSays, lead, history, toldNobody, tangled>>
  BY DEF TriageReads, LeadInv
<1>2. next \in {"capture", "lookup"} /\ says \in Identifications /\ c \in LeadIds
  BY <1>1 DEF LeadTypeOK, LeadIds
<1>3. ticketSays \in [Contacts -> Identifications] /\ toldNobody \subseteq Contacts
  BY <1>1 DEF LeadTypeOK
<1>4. says = "not_found" => Asked(c)'
  BY <1>1 DEF LeadInv, CapturesAreAsked, Asked
<1> HIDE DEF next, says
<1>5. new \in Sales /\ new.step = next /\ new.says = says /\ new.about = {c}
  BY <1>2 DEF Sales, NewSale, LeadSteps
<1> HIDE DEF new
<1>6. SaleBecomes(r, new)
  BY <1>1, <1>5, OneSaleChanges
<1> QED BY <1>1, <1>2, <1>3, <1>4, <1>5, <1>6, CapturingKeeps DEF Doubtless, Moves

LEMMA AloneKeepsLeads ==
    ASSUME LeadInv, NEW r \in LeadRequests, NEW c \in Contacts, CaptureAlone(r, c) PROVE LeadInv'
<1>1. PICK says \in Lookups(c) :
          /\ selling' = [selling EXCEPT ![r] = [NewSale EXCEPT !.about = {c}, !.says = says, !.step = "capture"]]
          /\ HeardOf(c, says)
  BY DEF CaptureAlone
<1> DEFINE new == [NewSale EXCEPT !.about = {c}, !.says = says, !.step = "capture"]
<1>2. /\ LeadTypeOK /\ selling[r].step = "idle" /\ selling' = [selling EXCEPT ![r] = new]
      /\ UNCHANGED <<knownAs, ticketSays, lead, history, tangled>>
  BY <1>1 DEF CaptureAlone, LeadInv
<1>3. says \in Identifications /\ c \in LeadIds /\ (says = "not_found" => knownAs[c] # "customer")
  BY <1>1 DEF Lookups, LeadIds, Identifications
<1>4. /\ ticketSays \in [Contacts -> Identifications] /\ toldNobody' \subseteq Contacts
      /\ toldNobody \subseteq toldNobody' /\ (says = "not_found" => Asked(c)')
  BY <1>1, <1>2, <1>3 DEF LeadTypeOK, HeardOf, Asked
<1>5. new \in Sales /\ new.step = "capture" /\ new.says = says /\ new.about = {c}
  BY <1>3 DEF Sales, NewSale, LeadSteps
<1> HIDE DEF new
<1>6. SaleBecomes(r, new)
  BY <1>2, <1>5, OneSaleChanges
<1> QED BY <1>2, <1>3, <1>4, <1>5, <1>6, CapturingKeeps DEF Doubtless, Moves

LEMMA LookingUpKeeps ==
    ASSUME LeadInv, NEW r \in LeadRequests, NEW c \in Contacts, NEW says \in Identifications, LookUp(r, c, says)
    PROVE  LeadInv'
<1> DEFINE s == selling[r]
           new == [s EXCEPT !.step = "save", !.says = says]
<1>1. /\ LeadTypeOK /\ s.step = "lookup" /\ c \in s.about /\ says \in Lookups(c) /\ HeardOf(c, says)
      /\ UNCHANGED <<knownAs, ticketSays, lead, history, tangled>> /\ s \in Sales
  BY SaleTypes DEF LookUp, LeadInv, Selling
<1>2. selling' = [selling EXCEPT ![r] = new]
  BY <1>1, SaleTypes DEF LookUp
<1>3. says = "not_found" => knownAs[c] # "customer"
  BY <1>1 DEF Lookups
<1>4. /\ ticketSays \in [Contacts -> Identifications] /\ toldNobody' \subseteq Contacts
      /\ toldNobody \subseteq toldNobody' /\ (says = "not_found" => Asked(c)')
  BY <1>1, <1>3 DEF LeadTypeOK, HeardOf, Asked
<1>5. \E l \in LeadIds : s.about = {l} /\ l = c
  BY <1>1 DEF LeadInv, SalesAreOfOne
<1> HIDE DEF s
<1>6. new \in Sales /\ new.step = "save" /\ new.says = says /\ new.about = s.about
  BY <1>1 DEF Sales, LeadSteps
<1> HIDE DEF new
<1>7. SaleBecomes(r, new)
  BY <1>1, <1>2, <1>6, OneSaleChanges
<1> QED BY <1>1, <1>4, <1>5, <1>6, <1>7, CapturingKeeps DEF Doubtless, Moves, s

\* What goes on, to save the answer or to become a lead, with an answer it has.
LEMMA AnswerKeeps ==
    ASSUME LeadInv, NEW r \in LeadRequests, NEW c \in Contacts,
           \/ SaveIdentity(r, c) \/ Capture(r, c)
           \/ CaptureInserts(r, c) /\ lead[c].stage # "none"
    PROVE  LeadInv'
<1>1. PICK step \in {"capture", "insert", "done"} :
          /\ Resumes(r, step) /\ c \in selling[r].about /\ selling[r].step \in {"save", "capture", "insert"}
          /\ step = "insert" => selling[r].step = "capture" /\ selling[r].says = "not_found"
          /\ step = "capture" => selling[r].step = "save"
          /\ UNCHANGED <<knownAs, lead, history, toldNobody, tangled>>
  BY DEF SaveIdentity, Capture, CaptureInserts, Selling
<1>2. LeadTypeOK /\ selling[r] \in Sales /\ \E l \in LeadIds : selling[r].about = {l} /\ l = c
  BY <1>1, SaleTypes DEF LeadInv, SalesAreOfOne
<1>3. PICK new \in Sales : /\ SaleBecomes(r, new) /\ new.step = step /\ new.about = selling[r].about
                           /\ new.says = selling[r].says
  BY <1>1, <1>2, SaleGoesOn DEF LeadSteps
<1>4. Doubtless(new) => Asked(c)
  <2>1. Doubtless(new) => MayBeLead(r)
    BY <1>1, <1>3 DEF Doubtless, MayBeLead
  <2> QED BY <1>1, <2>1 DEF LeadInv, CapturesAreAsked
<1>5. /\ ticketSays' \in [Contacts -> Identifications]
      /\ \A d \in Contacts : ticketSays'[d] = "not_found" => ticketSays[d] = "not_found" \/ Asked(d)
  <2>1. ticketSays \in [Contacts -> Identifications] /\ selling[r].says \in Identifications
    BY <1>2 DEF LeadTypeOK, Sales
  <2>2. \/ UNCHANGED ticketSays
        \/ selling[r].step = "save" /\ ticketSays' = [ticketSays EXCEPT ![c] = selling[r].says]
    BY DEF SaveIdentity, Capture, CaptureInserts, Selling
  <2>3. selling[r].step = "save" /\ selling[r].says = "not_found" => Asked(c)
    BY <1>1 DEF LeadInv, CapturesAreAsked, MayBeLead
  <2> QED BY <2>1, <2>2, <2>3
<1>6. toldNobody \subseteq Contacts /\ \A d \in Contacts : Asked(d)' = Asked(d)
  BY <1>1, <1>2 DEF LeadTypeOK, Asked
<1> QED BY <1>1, <1>2, <1>3, <1>4, <1>5, <1>6, CapturingKeeps DEF Moves

\* Who moves a lead, or makes it by hand, asks nobody.
LEMMA AskedStays ==
    ASSUME LeadInv, NEW r \in LeadRequests, NEW new \in Sales, SaleBecomes(r, new), ~Doubtless(new),
           \A c \in Contacts : lead'[c].stage # "none" => lead[c].stage # "none" \/ Asked(c),
           UNCHANGED <<knownAs, ticketSays, toldNobody>>
    PROVE  CapturesAreAsked'
<1>1. \A c \in Contacts : Asked(c)' = Asked(c)
  BY DEF Asked
<1>2. \A q \in LeadRequests : q # r => selling'[q] = selling[q] /\ MayBeLead(q)' = MayBeLead(q)
  BY DEF SaleBecomes, MayBeLead
<1>3. ~MayBeLead(r)'
  BY DEF SaleBecomes, MayBeLead, Doubtless
<1> QED BY <1>1, <1>2, <1>3 DEF LeadInv, CapturesAreAsked

\* The leads a request is not about.
LEMMA OtherLeadsKeep ==
    ASSUME LeadInv, NEW r \in LeadRequests, NEW new \in Sales, SaleBecomes(r, new),
           NEW d \in LeadIds \ tangled, ~Moving(r, d), d \notin new.about, lead'[d] = lead[d], UNCHANGED history
    PROVE  ChainOf(d)' /\ LatestOf(d)'
<1>1. ChainOf(d) /\ LatestOf(d)
  BY DEF LeadInv, HistoryTells
<1>2. \A q \in LeadRequests : Moving(q, d)' = Moving(q, d)
  BY DEF Moving, SaleBecomes
<1>3. \A q \in LeadRequests : Moving(q, d) => selling'[q] = selling[q]
  BY DEF Moving, SaleBecomes
<1>4. ChainOf(d)'
  BY <1>1 DEF ChainOf, LeaveIn
<1>5. LatestOf(d)'
  BY <1>1, <1>2, <1>3 DEF LatestOf, LeaveIn
<1> QED BY <1>4, <1>5

\* A lead that was not: captured, or made by hand.
LEMMA BeginningKeepsLeads ==
    ASSUME LeadInv, NEW r \in LeadRequests, NEW l \in LeadIds, NEW new \in Sales, SaleBecomes(r, new),
           new.about = {l}, new.step = "log", new.from = "none", new.to \in LeadStages, lead[l].stage = "none",
           lead' = [lead EXCEPT ![l] = [stage |-> new.to, closed |-> FALSE]],
           selling[r].step \notin Moves, l \in Contacts \/ l = r, l \in Contacts => Asked(l),
           UNCHANGED <<knownAs, ticketSays, history, toldNobody, tangled>>
    PROVE  LeadInv'
<1> DEFINE row == [stage |-> new.to, closed |-> FALSE]
<1>1. LeadTypeOK /\ "none" \notin LeadStages
  BY LeadAssumption DEF LeadInv, LeadStages
<1>2. /\ lead \in [LeadIds -> [stage : LeadStages \union {"none"}, closed : BOOLEAN]]
      /\ row \in [stage : LeadStages \union {"none"}, closed : BOOLEAN] /\ row.stage = new.to
      /\ lead' = [lead EXCEPT ![l] = row]
  BY <1>1 DEF LeadTypeOK
<1> HIDE DEF row
<1>3. /\ lead' \in [LeadIds -> [stage : LeadStages \union {"none"}, closed : BOOLEAN]] /\ lead'[l] = row
      /\ \A d \in LeadIds : d # l => lead'[d] = lead[d]
  BY ONLY <1>2, l \in LeadIds
<1>4. LeadTypeOK'
  BY <1>1, <1>3 DEF LeadTypeOK, SaleBecomes, Sales
<1>5. \A d \in LeadIds : lead'[d].stage = "none" => lead[d].stage = "none" /\ d # l
  BY <1>1, <1>2, <1>3
<1>6. SalesAreOfOne'
  <2>1. \A q \in LeadRequests : q # r => q # l
    BY LeadAssumption
  <2>2. \A q \in LeadRequests : q # r => selling'[q] = selling[q] /\ lead'[q] = lead[q]
    BY <1>3, <2>1 DEF SaleBecomes, LeadIds
  <2> QED BY <2>2 DEF LeadInv, SalesAreOfOne, SaleBecomes
<1>7. MovesAreOfLeads'
  <2>1. ASSUME NEW q \in LeadRequests, selling'[q].step \in Moves
        PROVE  selling'[q].to \in LeadStages /\ \A d \in selling'[q].about : lead'[d].stage # "none"
    <3>1. CASE q = r
      BY <1>1, <1>2, <1>3, <3>1 DEF SaleBecomes
    <3>2. CASE q # r
      <4>1. selling'[q] = selling[q] /\ selling[q].about \subseteq LeadIds
        BY <1>1, <3>2 DEF SaleBecomes, LeadTypeOK
      <4> QED BY <1>5, <2>1, <4>1 DEF LeadInv, MovesAreOfLeads
    <3> QED BY <3>1, <3>2
  <2> QED BY <1>5, <2>1 DEF LeadInv, MovesAreOfLeads
<1>8. HistoryTells'
  <2> SUFFICES ASSUME NEW d \in LeadIds \ tangled PROVE ChainOf(d)' /\ LatestOf(d)'
    BY DEF HistoryTells
  <2>1. CASE d # l
    BY <1>3, <2>1, OtherLeadsKeep DEF Moving
  <2>2. CASE d = l
    <3>1. \A i \in 1 .. Len(history) : history[i].lead # l
      BY DEF LeadInv, MovesAreOfLeads
    <3>2. \A q \in LeadRequests : Moving(q, l)' => q = r
      BY DEF LeadInv, MovesAreOfLeads, Moving, SaleBecomes
    <3>3. LeaveIn(Len(history), l, "none")'
      BY <3>1 DEF LeaveIn
    <3>4. ChainOf(l)'
      BY <3>1 DEF ChainOf
    <3>5. LatestOf(l)'
      BY <1>2, <1>3, <3>2, <3>3 DEF LatestOf, Moving, SaleBecomes, Moves
    <3> QED BY <2>2, <3>4, <3>5
  <2> QED BY <2>1, <2>2
<1>9. CapturesAreAsked'
  <2>1. \A c \in Contacts : lead'[c].stage # "none" => lead[c].stage # "none" \/ Asked(c)
    BY <1>3 DEF LeadIds
  <2>2. ~Doubtless(new)
    BY DEF Doubtless
  <2> QED BY <2>1, <2>2, AskedStays
<1> QED BY <1>4, <1>6, <1>7, <1>8, <1>9 DEF LeadInv

LEMMA InsertingKeepsLeads ==
    ASSUME LeadInv, NEW r \in LeadRequests, NEW c \in Contacts, CaptureInserts(r, c), lead[c].stage = "none"
    PROVE  LeadInv'
<1> DEFINE s == selling[r]
           new == [s EXCEPT !.step = "log", !.from = "none", !.to = "novo"]
<1>1. /\ LeadTypeOK /\ s.step = "insert" /\ c \in s.about /\ s \in Sales /\ c \in LeadIds
      /\ lead' = [lead EXCEPT ![c] = [stage |-> "novo", closed |-> FALSE]]
      /\ UNCHANGED <<knownAs, ticketSays, history, toldNobody, tangled>>
  BY SaleTypes DEF CaptureInserts, Selling, LeadInv, LeadIds
<1>2. selling' = [selling EXCEPT ![r] = new]
  BY SaleTypes DEF CaptureInserts, LeadInv
<1>3. s.about = {c} /\ Asked(c)
  BY <1>1 DEF LeadInv, SalesAreOfOne, CapturesAreAsked, MayBeLead
<1> HIDE DEF s
<1>4. /\ new \in Sales /\ new.step = "log" /\ new.from = "none" /\ new.to = "novo" /\ new.about = s.about
      /\ "novo" \in LeadStages
  BY <1>1, LeadAssumption DEF Sales, LeadSteps, LeadStages
<1> HIDE DEF new
<1>5. SaleBecomes(r, new)
  BY <1>1, <1>2, <1>4, OneSaleChanges
<1> QED BY <1>1, <1>3, <1>4, <1>5, BeginningKeepsLeads DEF s, Moves

LEMMA CreatingKeepsLeads ==
    ASSUME LeadInv, NEW r \in LeadRequests, NEW stage \in OpenStages, CreateByHand(r, stage)
    PROVE  LeadInv'
<1> DEFINE new == [NewSale EXCEPT !.about = {r}, !.step = "log", !.to = stage]
<1>1. /\ LeadTypeOK /\ selling[r].step = "idle" /\ selling' = [selling EXCEPT ![r] = new]
      /\ lead' = [lead EXCEPT ![r] = [stage |-> stage, closed |-> FALSE]]
      /\ UNCHANGED <<knownAs, ticketSays, history, toldNobody, tangled>>
  BY DEF CreateByHand, LeadInv
<1>2. r \in LeadIds /\ r \notin Contacts /\ lead[r].stage = "none"
  BY <1>1, LeadAssumption DEF LeadInv, SalesAreOfOne, LeadIds
<1>3. /\ new \in Sales /\ new.step = "log" /\ new.from = "none" /\ new.to = stage /\ new.about = {r}
      /\ stage \in LeadStages
  BY <1>2 DEF Sales, NewSale, LeadSteps, LeadStages, Identifications
<1> HIDE DEF new
<1>4. SaleBecomes(r, new)
  BY <1>1, <1>3, OneSaleChanges
<1> QED BY <1>1, <1>2, <1>3, <1>4, BeginningKeepsLeads DEF Moves

\* The stage a lead is in when a move of it begins is where its history left it,
\* unless another move is under way.
LEMMA ReadingMoveKeeps ==
    ASSUME LeadInv, NEW r \in LeadRequests, NEW l \in LeadIds, NEW to \in LeadStages, MoveReads(r, l, to)
    PROVE  LeadInv'
<1> DEFINE from == lead[l].stage
           new == [NewSale EXCEPT !.about = {l}, !.step = "update", !.from = from, !.to = to]
<1>1. /\ LeadTypeOK /\ selling[r].step = "idle" /\ from # "none" /\ selling' = [selling EXCEPT ![r] = new]
      /\ tangled' = (IF MovesOf(l) = {} THEN tangled ELSE tangled \union {l})
      /\ UNCHANGED <<knownAs, ticketSays, lead, history, toldNobody>>
  BY DEF MoveReads, LeadInv
<1>2. from \in LeadStages \union {"none"} /\ tangled \subseteq LeadIds
  BY <1>1 DEF LeadTypeOK
<1> HIDE DEF from
<1>3. /\ new \in Sales /\ new.step = "update" /\ new.from = from /\ new.to = to /\ new.about = {l}
  BY <1>2 DEF Sales, NewSale, LeadSteps, Identifications
<1> HIDE DEF new
<1>4. SaleBecomes(r, new)
  BY <1>1, <1>3, OneSaleChanges
<1>5. LeadTypeOK'
  BY <1>1, <1>2, <1>4 DEF LeadTypeOK, SaleBecomes, Sales
<1>6. SalesAreOfOne'
  BY <1>1, <1>3, <1>4 DEF LeadInv, SalesAreOfOne, SaleBecomes
<1>7. MovesAreOfLeads'
  BY <1>1, <1>3, <1>4 DEF LeadInv, MovesAreOfLeads, SaleBecomes, from
<1>8. HistoryTells'
  <2> SUFFICES ASSUME NEW d \in LeadIds \ tangled' PROVE ChainOf(d)' /\ LatestOf(d)'
    BY DEF HistoryTells
  <2>0. d \in LeadIds \ tangled
    BY <1>1
  <2>1. CASE d # l
    <3>1. ~Moving(r, d) /\ d \notin new.about /\ lead'[d] = lead[d] /\ UNCHANGED history
      BY <1>1, <1>3, <2>1 DEF Moving, Moves
    <3> QED BY <1>3, <1>4, <2>0, <3>1, OtherLeadsKeep
  <2>2. CASE d = l
    <3>1. \A q \in LeadRequests : ~Moving(q, l)
      BY <1>1, <2>2 DEF MovesOf, Moving, Moves
    <3>2. ChainOf(l) /\ LeaveIn(Len(history), l, from)
      BY <2>0, <2>2, <3>1 DEF LeadInv, HistoryTells, LatestOf, from
    <3>3. ChainOf(l)' /\ LeaveIn(Len(history), l, from)'
      BY <1>1, <3>2 DEF ChainOf, LeaveIn, from
    <3>4. \A q \in LeadRequests : Moving(q, l)' => q = r
      BY <1>4, <3>1 DEF Moving, SaleBecomes
    <3>5. /\ selling'[r] = new /\ from' = from /\ Moving(r, l)'
      BY <1>1, <1>3, <1>4 DEF SaleBecomes, Moving, Moves, from
    <3>6. LatestOf(l)'
      BY <1>1, <1>3, <3>3, <3>4, <3>5 DEF LatestOf, from, LeaveIn
    <3> QED BY <2>2, <3>3, <3>6
  <2> QED BY <2>1, <2>2
<1>9. CapturesAreAsked'
  <2>1. ~Doubtless(new)
    BY <1>3 DEF Doubtless
  <2> QED BY <1>1, <1>3, <1>4, <2>1, AskedStays
<1> QED BY <1>5, <1>6, <1>7, <1>8, <1>9 DEF LeadInv

LEMMA UpdatingMoveKeeps ==
    ASSUME LeadInv, NEW r \in LeadRequests, NEW l \in LeadIds, MoveUpdates(r, l)
    PROVE  LeadInv'
<1> DEFINE to == selling[r].to
           row == [stage |-> to, closed |-> to \in ClosedStages]
<1>1. /\ LeadTypeOK /\ selling[r].step = "update" /\ l \in selling[r].about /\ Resumes(r, "log")
      /\ lead' = [lead EXCEPT ![l] = row]
      /\ UNCHANGED <<knownAs, ticketSays, history, toldNobody, tangled>>
  BY DEF MoveUpdates, Selling, LeadInv
<1>2. selling[r].about = {l} /\ to \in LeadStages /\ lead[l].stage # "none" /\ "none" \notin LeadStages
  BY <1>1, LeadAssumption DEF LeadInv, SalesAreOfOne, MovesAreOfLeads, Moves, LeadStages
<1>3. PICK new \in Sales : /\ SaleBecomes(r, new) /\ new.step = "log" /\ new.about = {l}
                           /\ new.from = selling[r].from /\ new.to = to
  BY <1>1, <1>2, SaleGoesOn DEF LeadSteps
<1> HIDE DEF to
<1>4. /\ row \in [stage : LeadStages \union {"none"}, closed : BOOLEAN] /\ row.stage = to
      /\ lead \in [LeadIds -> [stage : LeadStages \union {"none"}, closed : BOOLEAN]]
  BY <1>1, <1>2 DEF LeadTypeOK
<1> HIDE DEF row
<1>5. /\ lead' \in [LeadIds -> [stage : LeadStages \union {"none"}, closed : BOOLEAN]] /\ lead'[l] = row
      /\ \A d \in LeadIds : d # l => lead'[d] = lead[d]
  BY ONLY <1>1, <1>4, l \in LeadIds
<1>6. \A d \in LeadIds : lead'[d].stage = "none" <=> lead[d].stage = "none"
  BY <1>2, <1>4, <1>5
<1>7. LeadTypeOK'
  BY <1>1, <1>3, <1>5 DEF LeadTypeOK, SaleBecomes, Sales
<1>8. SalesAreOfOne'
  BY <1>3, <1>6 DEF LeadInv, SalesAreOfOne, SaleBecomes, LeadIds
<1>9. MovesAreOfLeads'
  <2>1. ASSUME NEW q \in LeadRequests, selling'[q].step \in Moves
        PROVE  selling'[q].to \in LeadStages /\ \A d \in selling'[q].about : lead'[d].stage # "none"
    <3>1. CASE q = r
      BY <1>2, <1>3, <1>6, <3>1 DEF SaleBecomes
    <3>2. CASE q # r
      <4>1. selling'[q] = selling[q] /\ selling[q].about \subseteq LeadIds
        BY <1>1, <1>3, <3>2 DEF SaleBecomes, LeadTypeOK
      <4> QED BY <1>6, <2>1, <4>1 DEF LeadInv, MovesAreOfLeads
    <3> QED BY <3>1, <3>2
  <2> QED BY <1>1, <1>6, <2>1 DEF LeadInv, MovesAreOfLeads
<1>10. HistoryTells'
  <2> SUFFICES ASSUME NEW d \in LeadIds \ tangled PROVE ChainOf(d)' /\ LatestOf(d)'
    BY <1>1 DEF HistoryTells
  <2>1. CASE d # l
    <3>1. ~Moving(r, d) /\ d \notin new.about /\ lead'[d] = lead[d] /\ UNCHANGED history
      BY <1>1, <1>2, <1>3, <1>5, <2>1 DEF Moving
    <3> QED BY <1>3, <3>1, OtherLeadsKeep
  <2>2. CASE d = l
    <3>1. Moving(r, l)
      BY <1>1 DEF Moving, Moves
    <3>2. /\ ChainOf(l) /\ LeaveIn(Len(history), l, selling[r].from)
          /\ \A q \in LeadRequests : Moving(q, l) => q = r
      BY <2>2, <3>1 DEF LeadInv, HistoryTells, LatestOf
    <3>3. ChainOf(l)' /\ LeaveIn(Len(history), l, new.from)'
      BY <1>1, <1>3, <3>2 DEF ChainOf, LeaveIn
    <3>4. Moving(r, l)' /\ \A q \in LeadRequests : Moving(q, l)' => q = r
      BY <1>3, <3>2 DEF Moving, SaleBecomes, Moves
    <3>5. selling'[r] = new
      BY <1>3 DEF SaleBecomes
    <3>6. LatestOf(l)'
      BY <1>1, <1>3, <1>4, <1>5, <3>3, <3>4, <3>5 DEF LatestOf
    <3> QED BY <2>2, <3>3, <3>6
  <2> QED BY <2>1, <2>2
<1>11. CapturesAreAsked'
  <2>1. ~Doubtless(new) /\ \A c \in Contacts : lead'[c].stage # "none" => lead[c].stage # "none" \/ Asked(c)
    BY <1>3, <1>6 DEF Doubtless, LeadIds
  <2> QED BY <1>1, <1>3, <2>1, AskedStays
<1> QED BY <1>7, <1>8, <1>9, <1>10, <1>11 DEF LeadInv

\* A row at the end of the history leaves its lead where it says, and the others where they were.
LEMMA RowsAfter ==
    ASSUME history \in Seq(LeadRows), NEW row \in LeadRows, history' = Append(history, row)
    PROVE  /\ Len(history') = Len(history) + 1 /\ Len(history) \in Nat
           /\ \A i \in 1 .. Len(history) : history'[i] = history[i]
           /\ history'[Len(history) + 1] = row
           /\ history' \in Seq(LeadRows)
  OBVIOUS

LEMMA LeavesBefore ==
    ASSUME history \in Seq(LeadRows), NEW row \in LeadRows, history' = Append(history, row),
           NEW n \in 0 .. Len(history), NEW l, NEW stage, LeaveIn(n, l, stage)
    PROVE  LeaveIn(n, l, stage)'
<1>1. n \in Nat /\ n <= Len(history) /\ Len(history) \in Nat /\ \A i \in 1 .. Len(history) : history'[i] = history[i]
  BY RowsAfter
<1>2. \A i \in 1 .. n : i \in 1 .. Len(history) /\ history'[i] = history[i]
  BY <1>1
<1> QED BY <1>1, <1>2 DEF LeaveIn

LEMMA LeavesAfter ==
    ASSUME history \in Seq(LeadRows), NEW row \in LeadRows, history' = Append(history, row)
    PROVE  /\ LeaveIn(Len(history), row.lead, row.to)'
           /\ \A l : \A stage : row.lead # l /\ LeaveIn(Len(history), l, stage) => LeaveIn(Len(history), l, stage)'
<1> DEFINE n == Len(history)
<1>1. /\ Len(history') = n + 1 /\ n \in Nat /\ history'[n + 1] = row
      /\ \A i \in 1 .. n : history'[i] = history[i]
  BY RowsAfter
<1> HIDE DEF n
<1>2. LeaveIn(Len(history), row.lead, row.to)'
  <2>1. n + 1 \in 1 .. n + 1 /\ \A j \in (n + 1) + 1 .. n + 1 : FALSE
    BY <1>1
  <2> QED BY <1>1, <2>1 DEF LeaveIn
<1>3. ASSUME NEW l, NEW stage, row.lead # l, LeaveIn(n, l, stage) PROVE LeaveIn(Len(history), l, stage)'
  <2>1. \A j \in 1 .. n + 1 : j \in 1 .. n \/ j = n + 1
    BY <1>1
  <2>2. \A i \in 1 .. n : i \in 1 .. n + 1 /\ \A j \in (i+1) .. n + 1 : j \in (i+1) .. n \/ j = n + 1
    BY <1>1
  <2>3. \A i \in 1 .. n : \A j \in (i+1) .. n : j \in 1 .. n
    BY <1>1
  <2>4. CASE stage = "none" /\ \A i \in 1 .. n : history[i].lead # l
    BY <1>1, <1>3, <2>1, <2>4 DEF LeaveIn
  <2>5. CASE \E i \in 1 .. n : /\ history[i].lead = l /\ history[i].to = stage
                               /\ \A j \in (i+1) .. n : history[j].lead # l
    <3>1. PICK i \in 1 .. n : /\ history[i].lead = l /\ history[i].to = stage
                              /\ \A j \in (i+1) .. n : history[j].lead # l
      BY <2>5
    <3>2. \A j \in (i+1) .. n + 1 : history'[j].lead # l
      BY <1>1, <1>3, <2>2, <2>3, <3>1
    <3> QED BY <1>1, <2>2, <3>1, <3>2 DEF LeaveIn
  <2> QED BY <1>3, <2>4, <2>5 DEF LeaveIn
<1> QED BY <1>2, <1>3 DEF n

LEMMA LoggingKeepsLeads ==
    ASSUME LeadInv, NEW r \in LeadRequests, NEW l \in LeadIds, LogMove(r, l)
    PROVE  LeadInv'
<1>1. /\ LeadTypeOK /\ selling[r].step = "log" /\ l \in selling[r].about /\ Resumes(r, "done")
      /\ history' = Append(history, [lead |-> l, from |-> selling[r].from, to |-> selling[r].to])
      /\ UNCHANGED <<knownAs, ticketSays, lead, toldNobody, tangled>>
  BY DEF LogMove, Selling, LeadInv
<1>2. selling[r].about = {l} /\ selling[r].to \in LeadStages /\ lead[l].stage # "none"
  BY <1>1 DEF LeadInv, SalesAreOfOne, MovesAreOfLeads, Moves
<1>3. PICK new \in Sales : SaleBecomes(r, new) /\ new.step = "done" /\ new.about = {l}
  BY <1>1, <1>2, SaleGoesOn DEF LeadSteps
<1>4. PICK row \in LeadRows : /\ history' = Append(history, row) /\ row.lead = l
                              /\ row.from = selling[r].from /\ row.to = selling[r].to
  <2>1. selling[r].from \in LeadStages \union {"none"}
    BY <1>1, SaleTypes DEF Sales
  <2> QED BY <1>1, <1>2, <2>1 DEF LeadRows
<1>5. /\ history \in Seq(LeadRows) /\ history' \in Seq(LeadRows)
      /\ Len(history') = Len(history) + 1 /\ Len(history) \in Nat
      /\ \A i \in 1 .. Len(history) : history'[i] = history[i]
      /\ history'[Len(history) + 1] = row
  <2>1. history \in Seq(LeadRows)
    BY <1>1 DEF LeadTypeOK, LeadRows
  <2> QED BY <1>4, <2>1, RowsAfter
<1>6. \A i \in 1 .. Len(history') : i \in 1 .. Len(history) \/ i = Len(history) + 1
  BY <1>5
<1>7. LeadTypeOK'
  BY <1>1, <1>3, <1>5 DEF LeadTypeOK, LeadRows, SaleBecomes, Sales
<1>8. SalesAreOfOne'
  BY <1>1, <1>3 DEF LeadInv, SalesAreOfOne, SaleBecomes
<1>9. MovesAreOfLeads'
  <2>1. \A d \in LeadIds : lead'[d].stage = "none" => \A i \in 1 .. Len(history') : history'[i].lead # d
    BY <1>1, <1>2, <1>4, <1>5, <1>6 DEF LeadInv, MovesAreOfLeads
  <2>2. \A q \in LeadRequests : selling'[q].step \in Moves => selling'[q] = selling[q]
    BY <1>3 DEF SaleBecomes, Moves
  <2> QED BY <1>1, <2>1, <2>2 DEF LeadInv, MovesAreOfLeads
<1>10. HistoryTells'
  <2> SUFFICES ASSUME NEW d \in LeadIds \ tangled PROVE ChainOf(d)' /\ LatestOf(d)'
    BY <1>1 DEF HistoryTells
  <2>1. ChainOf(d) /\ LatestOf(d)
    BY DEF LeadInv, HistoryTells
  <2>2. \A i \in 1 .. Len(history) : history[i].lead = d => LeaveIn(i-1, d, history[i].from)'
    <3> SUFFICES ASSUME NEW i \in 1 .. Len(history), history[i].lead = d PROVE LeaveIn(i-1, d, history[i].from)'
      OBVIOUS
    <3>1. i - 1 \in 0 .. Len(history) /\ LeaveIn(i-1, d, history[i].from) /\ history'[i] = history[i]
      BY <1>5, <2>1 DEF ChainOf
    <3> QED BY <1>4, <1>5, <3>1, LeavesBefore
  <2>3. CASE d # l
    <3>1. ChainOf(d)'
      BY <1>4, <1>5, <1>6, <2>2, <2>3 DEF ChainOf
    <3>2. \A stage : LeaveIn(Len(history), d, stage) => LeaveIn(Len(history), d, stage)'
      BY <1>4, <1>5, <2>3, LeavesAfter
    <3>3. \A q \in LeadRequests : /\ Moving(q, d)' = Moving(q, d)
                                  /\ Moving(q, d) => selling'[q] = selling[q]
      BY <1>2, <1>3, <2>3 DEF Moving, SaleBecomes
    <3>4. LatestOf(d)'
      BY <1>1, <2>1, <3>2, <3>3 DEF LatestOf
    <3> QED BY <3>1, <3>4
  <2>4. CASE d = l
    <3>1. Moving(r, l)
      BY <1>1 DEF Moving, Moves
    <3>2. /\ LeaveIn(Len(history), l, row.from) /\ row.to = lead[l].stage
          /\ \A q \in LeadRequests : Moving(q, l) => q = r
      BY <1>1, <1>4, <2>1, <2>4, <3>1 DEF LatestOf
    <3>3. PICK n \in 0 .. Len(history) : n = Len(history) /\ LeaveIn(n, l, row.from)
      BY <1>5, <3>2
    <3>3a. LeaveIn(n, l, row.from)'
      BY <1>4, <1>5, <3>3, LeavesBefore
    <3>3b. history'[n + 1] = row /\ (n + 1) - 1 = n /\ \A i \in 1 .. Len(history') : i \in 1 .. Len(history) \/ i = n + 1
      BY <1>5, <1>6, <3>3
    <3>4. ChainOf(l)'
      BY <1>4, <2>2, <2>4, <3>3a, <3>3b DEF ChainOf
    <3>5. LeaveIn(Len(history), l, lead[l].stage)'
      BY <1>1, <1>4, <1>5, <3>2, LeavesAfter
    <3>6. \A q \in LeadRequests : ~Moving(q, l)'
      BY <1>3, <3>2 DEF Moving, SaleBecomes, Moves
    <3>7. LatestOf(l)'
      BY <3>5, <3>6 DEF LatestOf
    <3> QED BY <2>4, <3>4, <3>7
  <2> QED BY <2>3, <2>4
<1>11. CapturesAreAsked'
  <2>1. ~Doubtless(new)
    BY <1>3 DEF Doubtless
  <2> QED BY <1>1, <1>3, <2>1, AskedStays
<1> QED BY <1>7, <1>8, <1>9, <1>10, <1>11 DEF LeadInv

LEMMA FailingKeepsLeads == ASSUME LeadInv, NEW r \in LeadRequests, LeadCallFails(r) PROVE LeadInv'
<1>1. /\ LeadTypeOK /\ selling[r].step \in {"lookup", "capture", "insert", "update", "log"} /\ Resumes(r, "done")
      /\ tangled' = IF selling[r].step = "log" THEN tangled \union selling[r].about ELSE tangled
      /\ UNCHANGED <<knownAs, ticketSays, lead, history, toldNobody>>
  BY DEF LeadCallFails, LeadInv
<1>2. PICK l \in LeadIds : selling[r].about = {l}
  BY <1>1 DEF LeadInv, SalesAreOfOne
<1>3. PICK new \in Sales : SaleBecomes(r, new) /\ new.step = "done" /\ new.about = {l}
  BY <1>1, <1>2, SaleGoesOn DEF LeadSteps
<1>4. LeadTypeOK'
  BY <1>1, <1>2, <1>3 DEF LeadTypeOK, SaleBecomes, Sales
<1>5. SalesAreOfOne' /\ MovesAreOfLeads'
  BY <1>1, <1>3 DEF LeadInv, SalesAreOfOne, MovesAreOfLeads, SaleBecomes, Moves
<1>6. HistoryTells'
  <2> SUFFICES ASSUME NEW d \in LeadIds \ tangled' PROVE ChainOf(d)' /\ LatestOf(d)'
    BY DEF HistoryTells
  <2>1. d \in LeadIds \ tangled /\ ChainOf(d) /\ LatestOf(d)
    BY <1>1 DEF LeadInv, HistoryTells
  <2>2. CASE d # l
    BY <1>1, <1>2, <1>3, <2>1, <2>2, OtherLeadsKeep DEF Moving
  <2>3. CASE d = l
    <3>1. selling[r].step # "log"
      BY <1>1, <1>2, <2>3
    <3>2. ChainOf(d)'
      BY <1>1, <2>1 DEF ChainOf, LeaveIn
    <3>3. \A q \in LeadRequests : /\ Moving(q, d)' => Moving(q, d) /\ q # r /\ selling'[q] = selling[q]
                                  /\ q # r => Moving(q, d)' = Moving(q, d)
      BY <1>3 DEF Moving, SaleBecomes, Moves
    <3>4. (\A q \in LeadRequests : ~Moving(q, d)') => LeaveIn(Len(history), d, lead[d].stage)
      <4>1. CASE Moving(r, d)
        BY <2>1, <3>1, <4>1 DEF LatestOf, Moving, Moves
      <4>2. CASE ~Moving(r, d)
        BY <2>1, <3>3, <4>2 DEF LatestOf
      <4> QED BY <4>1, <4>2
    <3>5. LatestOf(d)'
      BY <1>1, <2>1, <3>3, <3>4 DEF LatestOf, LeaveIn
    <3> QED BY <3>2, <3>5
  <2> QED BY <2>2, <2>3
<1>7. CapturesAreAsked'
  <2>1. ~Doubtless(new)
    BY <1>3 DEF Doubtless
  <2> QED BY <1>1, <1>3, <2>1, AskedStays
<1> QED BY <1>4, <1>5, <1>6, <1>7 DEF LeadInv

LEMMA LeadStepKeeps == ASSUME LeadInv, [LeadNext]_leadVars PROVE LeadInv'
<1>1. CASE UNCHANGED leadVars
  BY <1>1 DEF leadVars, LeadInv, LeadTypeOK, SalesAreOfOne, MovesAreOfLeads, HistoryTells, ChainOf, LatestOf, Moving,
              LeaveIn, CapturesAreAsked, Asked, MayBeLead
<1>2. ASSUME NEW r \in LeadRequests, NEW c \in Contacts,
             \/ TriageReads(r, c) \/ SaveIdentity(r, c) \/ CaptureAlone(r, c) \/ Capture(r, c)
             \/ CaptureInserts(r, c) \/ \E says \in Identifications : LookUp(r, c, says)
      PROVE  LeadInv'
  BY <1>2, TriageKeepsLeads, AloneKeepsLeads, AnswerKeeps, InsertingKeepsLeads, LookingUpKeeps
<1>3. ASSUME NEW r \in LeadRequests, NEW l \in LeadIds,
             MoveUpdates(r, l) \/ LogMove(r, l) \/ \E to \in LeadStages : MoveReads(r, l, to)
      PROVE  LeadInv'
  BY <1>3, UpdatingMoveKeeps, LoggingKeepsLeads, ReadingMoveKeeps
<1>4. ASSUME NEW r \in LeadRequests, LeadCallFails(r) \/ \E stage \in OpenStages : CreateByHand(r, stage)
      PROVE  LeadInv'
  BY <1>4, FailingKeepsLeads, CreatingKeepsLeads
<1> QED BY <1>1, <1>2, <1>3, <1>4 DEF LeadNext

\* However many people and messages work on the leads at once: a lead whose moves did not
\* overlap has a history that tells the way it came, and nobody becomes a lead about whom
\* the ERP was not asked.
THEOREM LeadsTellTrue == LeadSpec => []LeadsAreTrue
<1>1. ASSUME LeadInv PROVE LeadsAreTrue
  <2>1. HistoryIsAChain
    <3> SUFFICES ASSUME NEW l \in LeadIds \ tangled
                 PROVE  /\ \A i \in 1 .. Len(history) : history[i].lead = l => LeaveIn(i-1, l, history[i].from)
                        /\ \/ LeaveIn(Len(history), l, lead[l].stage)
                           \/ \E r \in LeadRequests :
                                 Selling(r, "log", l) /\ LeaveIn(Len(history), l, selling[r].from)
      BY DEF HistoryIsAChain
    <3>1. ChainOf(l) /\ LatestOf(l)
      BY <1>1 DEF LeadInv, HistoryTells
    <3>2. CASE \A r \in LeadRequests : ~Moving(r, l)
      BY <3>1, <3>2 DEF ChainOf, LatestOf
    <3>3. ASSUME NEW r \in LeadRequests, Moving(r, l)
          PROVE  \/ LeaveIn(Len(history), l, lead[l].stage)
                 \/ Selling(r, "log", l) /\ LeaveIn(Len(history), l, selling[r].from)
      BY <3>1, <3>3 DEF LatestOf, Moving, Moves, Selling
    <3> QED BY <3>1, <3>2, <3>3 DEF ChainOf
  <2>2. LeadsWereAskedAbout
    BY <1>1 DEF LeadInv, CapturesAreAsked, Asked, LeadsWereAskedAbout
  <2> QED BY <2>1, <2>2 DEF LeadsAreTrue
<1> QED BY <1>1, LeadInitially, LeadStepKeeps, PTL DEF LeadSpec

-----------------------------------------------------------------------------
(* Alerts of the network.                                                  *)

Busy == {"find", "close", "insert"}
DeliveryRecords == [step : {"idle", "find", "close", "insert", "done", "lost"},
                    text : SUBSET AlertTexts, match : SUBSET Deliveries]
AlertRows == [id : Deliveries, key : AlertKeys, text : AlertTexts, open : BOOLEAN]

\* A POST under way is about one text.
OneText == \A d \in Deliveries : delivery[d].step \in Busy => \E t \in AlertTexts : delivery[d].text = {t}

\* A row is inserted by the last step of its POST, and by no other one.
RowsAreOfDone ==
    /\ \A row \in alerts : delivery[row.id].step = "done"
    /\ \A row, other \in alerts : row.id = other.id => row = other

\* What an end is about to close is a row, and one of its own key.
MatchesAreOfKey ==
    \A d \in Deliveries : delivery[d].step = "close" =>
        /\ \A i \in delivery[d].match : delivery[i].step = "done"
        /\ \A t \in delivery[d].text : \A row \in alerts : row.id \in delivery[d].match => row.key = KeyOfText[t]

OneAtATime == \A k \in AlertKeys \ muddled : \A d, e \in InHand(k) : d = e

\* Where POSTs come one after another, what the look-up found is still so at the write.
LookUpsHold ==
    \A k \in AlertKeys \ muddled : \A d \in InHand(k) :
        /\ delivery[d].step = "insert" => OpenAlerts(k) = {}
        /\ delivery[d].step = "close" => /\ delivery[d].text \subseteq EndTexts
                                         /\ \A row \in OpenAlerts(k) : row.id \in delivery[d].match

RowIsOpen ==
    \A k \in AlertKeys \ muddled :
        IF heard[k] = "outage" THEN \E row \in alerts : OpenAlerts(k) = {row} ELSE OpenAlerts(k) = {}

AlertInv == AlertTypeOK /\ OneText /\ RowsAreOfDone /\ MatchesAreOfKey /\ OneAtATime /\ LookUpsHold /\ RowIsOpen

LEMMA AlertsInitially == AlertInit => AlertInv
  BY AlertAssumption DEF AlertInit, AlertInv, AlertTypeOK, NewDelivery, OneText, Busy, RowsAreOfDone, MatchesAreOfKey,
     OneAtATime, LookUpsHold, RowIsOpen, InHand, OpenAlerts

\* What a step of a POST leaves of the other ones.
LEMMA DeliveryMoves ==
    ASSUME AlertTypeOK, NEW d \in Deliveries, NEW r \in DeliveryRecords,
           delivery' = [delivery EXCEPT ![d] = r]
    PROVE  /\ delivery' \in [Deliveries -> DeliveryRecords]
           /\ delivery'[d] = r
           /\ \A e \in Deliveries : e # d => delivery'[e] = delivery[e]
  BY DEF AlertTypeOK, DeliveryRecords

\* The step of a POST of the text t to the step s, with the row it matched.
Becomes(d, s, M) ==
    /\ delivery' \in [Deliveries -> DeliveryRecords]
    /\ delivery'[d].step = s /\ delivery'[d].text = delivery[d].text /\ delivery'[d].match = M
    /\ \A e \in Deliveries : e # d => delivery'[e] = delivery[e]

LEMMA StepBecomes ==
    ASSUME AlertTypeOK, NEW d \in Deliveries, NEW s \in {"close", "insert", "done", "lost"}, NEW M \in SUBSET Deliveries
    PROVE  /\ delivery' = [delivery EXCEPT ![d].step = s] => Becomes(d, s, delivery[d].match)
           /\ delivery' = [delivery EXCEPT ![d].step = s, ![d].match = M] => Becomes(d, s, M)
<1> DEFINE one == [delivery[d] EXCEPT !.step = s]
           two == [delivery[d] EXCEPT !.step = s, !.match = M]
<1>1. delivery[d] \in DeliveryRecords /\ delivery \in [Deliveries -> DeliveryRecords]
  BY DEF AlertTypeOK, DeliveryRecords
<1>2. /\ one \in DeliveryRecords /\ two \in DeliveryRecords
      /\ one.step = s /\ one.text = delivery[d].text /\ one.match = delivery[d].match
      /\ two.step = s /\ two.text = delivery[d].text /\ two.match = M
  <2> DEFINE r == delivery[d]
  <2>1. r \in DeliveryRecords
    BY <1>1
  <2> HIDE DEF r
  <2>2. /\ [r EXCEPT !.step = s] \in DeliveryRecords /\ [r EXCEPT !.step = s, !.match = M] \in DeliveryRecords
        /\ [r EXCEPT !.step = s].step = s /\ [r EXCEPT !.step = s].text = r.text
        /\ [r EXCEPT !.step = s].match = r.match
        /\ [r EXCEPT !.step = s, !.match = M].step = s /\ [r EXCEPT !.step = s, !.match = M].text = r.text
        /\ [r EXCEPT !.step = s, !.match = M].match = M
    BY <2>1 DEF DeliveryRecords
  <2> QED BY <2>2 DEF r
<1>3. /\ delivery' = [delivery EXCEPT ![d].step = s] => delivery' = [delivery EXCEPT ![d] = one]
      /\ delivery' = [delivery EXCEPT ![d].step = s, ![d].match = M] => delivery' = [delivery EXCEPT ![d] = two]
  BY <1>1
<1> HIDE DEF one, two
<1>4. ASSUME delivery' = [delivery EXCEPT ![d].step = s] PROVE Becomes(d, s, delivery[d].match)
  <2>1. delivery' = [delivery EXCEPT ![d] = one]
    BY <1>3, <1>4
  <2> QED BY <1>2, <2>1, DeliveryMoves DEF Becomes
<1>5. ASSUME delivery' = [delivery EXCEPT ![d].step = s, ![d].match = M] PROVE Becomes(d, s, M)
  <2>1. delivery' = [delivery EXCEPT ![d] = two]
    BY <1>3, <1>5
  <2> QED BY <1>2, <2>1, DeliveryMoves DEF Becomes
<1> QED BY <1>4, <1>5

\* Of other keys nothing changes; of its own, where POSTs come one after another, d is the only one.
LEMMA HandedOn ==
    ASSUME AlertInv, NEW d \in Deliveries, NEW t \in AlertTexts, delivery[d].step \in Busy, delivery[d].text = {t},
           NEW s \in {"close", "insert", "done", "lost"}, NEW M \in SUBSET Deliveries, Becomes(d, s, M)
    PROVE  /\ KeyOfText[t] \in AlertKeys
           /\ \A k \in AlertKeys : d \in InHand(k) <=> k = KeyOfText[t]
           /\ \A k \in AlertKeys : InHand(k)' \subseteq InHand(k)
           /\ \A k \in AlertKeys : \A e \in InHand(k)' : e = d => s \in Busy /\ k = KeyOfText[t]
           /\ KeyOfText[t] \notin muddled => \A e \in InHand(KeyOfText[t])' : e = d
           /\ \A e \in Deliveries : delivery'[e].text = delivery[e].text
           /\ OneText'
<1>1. KeyOfText[t] \in AlertKeys
  BY AlertAssumption DEF AlertKeys
<1>2. \A k \in AlertKeys : d \in InHand(k) <=> k = KeyOfText[t]
  BY DEF InHand, Busy
<1>3. \A e \in Deliveries : delivery'[e].text = delivery[e].text
  BY DEF Becomes
<1>4. \A k \in AlertKeys : InHand(k)' \subseteq InHand(k)
  BY <1>3 DEF InHand, Becomes, Busy
<1>5. \A k \in AlertKeys : \A e \in InHand(k)' : e = d => s \in Busy /\ k = KeyOfText[t]
  BY <1>3 DEF InHand, Becomes, Busy
<1>6. KeyOfText[t] \notin muddled => \A e \in InHand(KeyOfText[t])' : e = d
  BY <1>1, <1>2, <1>4 DEF AlertInv, OneAtATime
<1>7. OneText'
  BY <1>3 DEF OneText, Becomes, AlertInv
<1> QED BY <1>1, <1>2, <1>3, <1>4, <1>5, <1>6, <1>7

LEMMA ReceivingKeeps ==
    ASSUME AlertInv, NEW d \in Deliveries, NEW t \in AlertTexts, ReceiveAlert(d, t) PROVE AlertInv'
<1> DEFINE new == [NewDelivery EXCEPT !.step = "find", !.text = {t}]
<1>1. new \in DeliveryRecords /\ new.step = "find" /\ new.text = {t} /\ new.match = {}
  BY DEF NewDelivery, DeliveryRecords
<1> HIDE DEF new
<1>2. /\ delivery' = [delivery EXCEPT ![d] = new] /\ delivery[d].step = "idle" /\ UNCHANGED <<alerts, heard>>
      /\ muddled' = IF InHand(KeyOfText[t]) = {} THEN muddled ELSE muddled \union {KeyOfText[t]}
      /\ AlertTypeOK
  BY DEF ReceiveAlert, new, AlertInv
<1>3. /\ delivery' \in [Deliveries -> DeliveryRecords] /\ delivery'[d] = new
      /\ \A e \in Deliveries : e # d => delivery'[e] = delivery[e]
  BY <1>1, <1>2, DeliveryMoves
<1>4. KeyOfText[t] \in AlertKeys
  BY AlertAssumption DEF AlertKeys
<1>5. AlertTypeOK'
  BY <1>2, <1>3, <1>4 DEF AlertTypeOK, DeliveryRecords
<1>6. OneText'
  BY <1>1, <1>3 DEF OneText, AlertInv
<1>7. RowsAreOfDone' /\ MatchesAreOfKey' /\ UNCHANGED <<alerts, heard>>
  <2>1. \A row \in alerts : row.id \in Deliveries /\ row.id # d
    BY <1>2 DEF AlertInv, RowsAreOfDone, AlertTypeOK
  <2>2. \A e \in Deliveries : \A i \in delivery[e].match : i \in Deliveries
    BY <1>2 DEF AlertTypeOK
  <2>3. RowsAreOfDone'
    BY <1>2, <1>3, <2>1 DEF AlertInv, RowsAreOfDone
  <2>4. MatchesAreOfKey'
    BY <1>1, <1>2, <1>3, <2>1, <2>2 DEF AlertInv, MatchesAreOfKey
  <2> QED BY <1>2, <2>3, <2>4
<1>8. \A k \in AlertKeys : /\ InHand(k)' \subseteq InHand(k) \union {d}
                           /\ d \in InHand(k)' <=> k = KeyOfText[t]
  BY <1>1, <1>3 DEF InHand
<1>9. \A k \in AlertKeys \ muddled' : k \notin muddled /\ (d \in InHand(k)' => InHand(k) = {})
  BY <1>2, <1>8
<1>10. OneAtATime'
  BY <1>8, <1>9 DEF AlertInv, OneAtATime
<1>11. \A k \in AlertKeys : OpenAlerts(k)' = OpenAlerts(k)
  BY <1>7 DEF OpenAlerts
<1>12. RowIsOpen'
  BY <1>2, <1>9, <1>11 DEF AlertInv, RowIsOpen
<1>13. LookUpsHold'
  <2> SUFFICES ASSUME NEW k \in AlertKeys \ muddled', NEW e \in InHand(k)'
               PROVE  /\ delivery'[e].step = "insert" => OpenAlerts(k)' = {}
                      /\ delivery'[e].step = "close" => /\ delivery'[e].text \subseteq EndTexts
                                                        /\ \A row \in OpenAlerts(k)' : row.id \in delivery'[e].match
    BY DEF LookUpsHold
  <2>1. CASE e = d
    BY <1>1, <1>3, <2>1
  <2>2. CASE e # d
    <3>1. e \in InHand(k) /\ e \in Deliveries /\ delivery'[e] = delivery[e] /\ k \notin muddled
      BY <1>3, <1>8, <1>9, <2>2 DEF InHand
    <3> QED BY <1>11, <3>1 DEF AlertInv, LookUpsHold
  <2> QED BY <2>1, <2>2
<1> QED BY <1>5, <1>6, <1>7, <1>10, <1>12, <1>13 DEF AlertInv

\* A POST goes on, or ends without a row of its own, and no row changes.
LEMMA GoingOnKeeps ==
    ASSUME AlertInv, NEW d \in Deliveries, NEW t \in AlertTexts, delivery[d].step \in Busy, delivery[d].text = {t},
           NEW s \in {"close", "insert", "done", "lost"}, NEW M \in SUBSET Deliveries, Becomes(d, s, M),
           UNCHANGED alerts, muddled \subseteq muddled', muddled' \subseteq AlertKeys,
           heard' \in [AlertKeys -> {"nothing", "outage", "end"}],
           \A k \in AlertKeys : heard'[k] # heard[k] => s = "done" /\ k = KeyOfText[t],
           s = "done" => heard'[KeyOfText[t]] = "outage" /\ OpenAlerts(KeyOfText[t]) # {},
           s = "insert" => OpenAlerts(KeyOfText[t]) = {},
           s = "close" => /\ t \in EndTexts
                          /\ \E row \in OpenAlerts(KeyOfText[t]) : M = {row.id}
    PROVE  AlertInv'
<1>1. /\ KeyOfText[t] \in AlertKeys
      /\ \A k \in AlertKeys : InHand(k)' \subseteq InHand(k)
      /\ \A k \in AlertKeys : \A e \in InHand(k)' : e = d => s \in Busy /\ k = KeyOfText[t]
      /\ OneText'
  BY HandedOn
<1>2. AlertTypeOK /\ AlertTypeOK'
  BY DEF AlertInv, AlertTypeOK, Becomes, DeliveryRecords
<1>3. \A k \in AlertKeys : OpenAlerts(k)' = OpenAlerts(k)
  BY DEF OpenAlerts
<1>4. \A row \in alerts : row.id \in Deliveries /\ row.id # d
  BY <1>2 DEF AlertInv, RowsAreOfDone, AlertTypeOK, Busy
<1>5. RowsAreOfDone'
  BY <1>4 DEF AlertInv, RowsAreOfDone, Becomes
<1>6. MatchesAreOfKey'
  <2> SUFFICES ASSUME NEW e \in Deliveries, delivery'[e].step = "close"
               PROVE  /\ \A i \in delivery'[e].match : delivery'[i].step = "done"
                      /\ \A u \in delivery'[e].text : \A row \in alerts : row.id \in delivery'[e].match => row.key = KeyOfText[u]
    BY DEF MatchesAreOfKey
  <2>1. CASE e # d
    <3>1. delivery'[e] = delivery[e] /\ delivery[e].match \subseteq Deliveries
      BY <1>2, <2>1 DEF Becomes, AlertTypeOK
    <3>2. \A i \in delivery[e].match : i # d /\ delivery[i].step = "done"
      BY <3>1 DEF AlertInv, MatchesAreOfKey, Busy
    <3> QED BY <3>1, <3>2 DEF AlertInv, MatchesAreOfKey, Becomes
  <2>2. CASE e = d
    <3>1. s = "close" /\ delivery'[e].text = {t} /\ delivery'[e].match = M
      BY <2>2 DEF Becomes
    <3>2. PICK row \in OpenAlerts(KeyOfText[t]) : M = {row.id}
      BY <3>1
    <3>3. row \in alerts /\ row.key = KeyOfText[t] /\ row.id # d /\ row.id \in Deliveries
      BY <1>4 DEF OpenAlerts
    <3>4. delivery'[row.id].step = "done"
      BY <3>3 DEF Becomes, AlertInv, RowsAreOfDone
    <3>5. \A other \in alerts : other.id = row.id => other.key = row.key
      BY <3>3 DEF AlertInv, RowsAreOfDone
    <3> QED BY <3>1, <3>2, <3>3, <3>4, <3>5
  <2> QED BY <2>1, <2>2
<1>7. OneAtATime'
  BY <1>1 DEF AlertInv, OneAtATime
<1>8. RowIsOpen'
  <2> SUFFICES ASSUME NEW k \in AlertKeys \ muddled'
               PROVE  IF heard'[k] = "outage" THEN \E row \in alerts : OpenAlerts(k) = {row} ELSE OpenAlerts(k) = {}
    BY <1>3 DEF RowIsOpen
  <2>1. IF heard[k] = "outage" THEN \E row \in alerts : OpenAlerts(k) = {row} ELSE OpenAlerts(k) = {}
    BY DEF AlertInv, RowIsOpen
  <2> QED BY <2>1
<1>9. LookUpsHold'
  <2> SUFFICES ASSUME NEW k \in AlertKeys \ muddled', NEW e \in InHand(k)'
               PROVE  /\ delivery'[e].step = "insert" => OpenAlerts(k) = {}
                      /\ delivery'[e].step = "close" => /\ delivery'[e].text \subseteq EndTexts
                                                        /\ \A row \in OpenAlerts(k) : row.id \in delivery'[e].match
    BY <1>3 DEF LookUpsHold
  <2>1. CASE e # d
    <3>1. e \in InHand(k) /\ delivery'[e] = delivery[e] /\ k \notin muddled
      BY <1>1, <2>1 DEF InHand, Becomes
    <3> QED BY <3>1 DEF AlertInv, LookUpsHold
  <2>2. CASE e = d
    <3>1. k = KeyOfText[t] /\ delivery'[e].step = s /\ delivery'[e].text = {t} /\ delivery'[e].match = M
      BY <1>1, <2>2 DEF Becomes
    <3>2. ASSUME s = "close" PROVE \A row \in OpenAlerts(k) : row.id \in M
      <4>1. PICK row \in OpenAlerts(k) : M = {row.id}
        BY <3>1, <3>2
      <4>2. \A other \in OpenAlerts(k) : other = row
        BY <4>1 DEF AlertInv, RowIsOpen
      <4> QED BY <4>1, <4>2
    <3> QED BY <3>1, <3>2
  <2> QED BY <2>1, <2>2
<1> QED BY <1>1, <1>2, <1>5, <1>6, <1>7, <1>8, <1>9 DEF AlertInv

LEMMA FindingKeepsAlerts ==
    ASSUME AlertInv, NEW d \in Deliveries, NEW t \in AlertTexts, FindOpen(d, t) PROVE AlertInv'
<1>1. /\ delivery[d].step = "find" /\ delivery[d].text = {t} /\ delivery[d].step \in Busy
      /\ UNCHANGED <<alerts, muddled>> /\ AlertTypeOK /\ KeyOfText[t] \in AlertKeys
  BY AlertAssumption DEF FindOpen, Handles, Busy, AlertInv, AlertKeys
<1>2. delivery[d].match \subseteq Deliveries
  BY <1>1 DEF AlertTypeOK
<1>3. CASE /\ OpenAlerts(KeyOfText[t]) = {}
           /\ delivery' = [delivery EXCEPT ![d].step = "insert"] /\ UNCHANGED heard
  <2>1. Becomes(d, "insert", delivery[d].match)
    BY <1>1, <1>2, <1>3, StepBecomes
  <2> QED BY <1>1, <1>2, <1>3, <2>1, GoingOnKeeps DEF AlertTypeOK
<1>4. CASE /\ t \in EndTexts
           /\ \E row \in OpenAlerts(KeyOfText[t]) :
                 delivery' = [delivery EXCEPT ![d].step = "close", ![d].match = {row.id}]
           /\ UNCHANGED heard
  <2>1. PICK row \in OpenAlerts(KeyOfText[t]) :
            delivery' = [delivery EXCEPT ![d].step = "close", ![d].match = {row.id}]
    BY <1>4
  <2>2. {row.id} \subseteq Deliveries
    BY <1>1, <2>1 DEF OpenAlerts, AlertTypeOK
  <2>3. Becomes(d, "close", {row.id})
    BY <1>1, <2>1, <2>2, StepBecomes
  <2> QED BY <1>1, <1>4, <2>1, <2>2, <2>3, GoingOnKeeps DEF AlertTypeOK
<1>5. CASE OpenAlerts(KeyOfText[t]) # {} /\ t \notin EndTexts /\ Handled(d, t)
  <2>1. Becomes(d, "done", delivery[d].match)
    BY <1>1, <1>2, <1>5, StepBecomes DEF Handled
  <2>2. heard' = [heard EXCEPT ![KeyOfText[t]] = "outage"]
    BY <1>5 DEF Handled
  <2>3. /\ heard' \in [AlertKeys -> {"nothing", "outage", "end"}] /\ heard'[KeyOfText[t]] = "outage"
        /\ \A k \in AlertKeys : heard'[k] # heard[k] => k = KeyOfText[t]
    BY <1>1, <2>2 DEF AlertTypeOK
  <2>4. muddled \subseteq AlertKeys
    BY <1>1 DEF AlertTypeOK
  <2> QED BY <1>1, <1>2, <1>5, <2>1, <2>3, <2>4, GoingOnKeeps
<1> QED BY <1>3, <1>4, <1>5 DEF FindOpen

LEMMA FailingKeepsAlerts ==
    ASSUME AlertInv, NEW d \in Deliveries, NEW t \in AlertTexts, AlertFails(d, t) PROVE AlertInv'
<1>1. /\ delivery[d].step \in Busy /\ t \in delivery[d].text /\ UNCHANGED <<alerts, heard>>
      /\ AlertTypeOK /\ KeyOfText[t] \in AlertKeys
      /\ delivery' = [delivery EXCEPT ![d].step = "lost"] /\ muddled' = muddled \union {KeyOfText[t]}
  BY AlertAssumption DEF AlertFails, InHand, Busy, AlertInv, AlertKeys
<1>2. delivery[d].text = {t} /\ delivery[d].match \subseteq Deliveries
  BY <1>1 DEF AlertTypeOK, AlertInv, OneText
<1>3. Becomes(d, "lost", delivery[d].match)
  BY <1>1, <1>2, StepBecomes
<1> QED BY <1>1, <1>2, <1>3, GoingOnKeeps DEF AlertTypeOK

\* The write of an end, or of a row.
LEMMA ClosingKeeps ==
    ASSUME AlertInv, NEW d \in Deliveries, NEW t \in AlertTexts, CloseAlert(d, t) PROVE AlertInv'
<1> DEFINE K == KeyOfText[t]
           M == delivery[d].match
<1>1. /\ delivery[d].step = "close" /\ delivery[d].text = {t} /\ delivery[d].step \in Busy
      /\ alerts' = {[row EXCEPT !.open = row.open /\ row.id \notin M] : row \in alerts}
      /\ delivery' = [delivery EXCEPT ![d].step = "done"]
      /\ heard' = [heard EXCEPT ![K] = IF t \in EndTexts THEN "end" ELSE "outage"]
      /\ UNCHANGED muddled /\ AlertTypeOK /\ K \in AlertKeys
  BY AlertAssumption DEF CloseAlert, Handles, Handled, Busy, AlertInv, AlertKeys
<1>2. M \in SUBSET Deliveries
  BY <1>1 DEF AlertTypeOK
<1>3. Becomes(d, "done", M)
  BY <1>1, <1>2, StepBecomes
<1>4. /\ \A k \in AlertKeys : d \in InHand(k) <=> k = K
      /\ \A k \in AlertKeys : InHand(k)' \subseteq InHand(k)
      /\ \A k \in AlertKeys : d \notin InHand(k)'
      /\ K \notin muddled => InHand(K)' = {}
      /\ OneText'
  BY <1>1, <1>2, <1>3, HandedOn DEF Busy
<1> DEFINE shut(row) == [row EXCEPT !.open = row.open /\ row.id \notin M]
<1>5. \A row \in alerts : /\ shut(row) \in AlertRows /\ row \in AlertRows
                          /\ shut(row).id = row.id /\ shut(row).key = row.key
                          /\ shut(row).text = row.text /\ shut(row).open = (row.open /\ row.id \notin M)
                          /\ row.id \notin M => shut(row) = row
  <2> SUFFICES ASSUME NEW row \in alerts
               PROVE  /\ shut(row) \in AlertRows /\ row \in AlertRows
                      /\ shut(row).id = row.id /\ shut(row).key = row.key
                      /\ shut(row).text = row.text /\ shut(row).open = (row.open /\ row.id \notin M)
                      /\ row.id \notin M => shut(row) = row
    OBVIOUS
  <2>1. row \in AlertRows
    BY <1>1 DEF AlertTypeOK, AlertRows
  <2>2. \A b \in BOOLEAN : /\ [row EXCEPT !.open = b] \in AlertRows
                           /\ [row EXCEPT !.open = b].id = row.id
                           /\ [row EXCEPT !.open = b].key = row.key
                           /\ [row EXCEPT !.open = b].text = row.text
                           /\ [row EXCEPT !.open = b].open = b
    BY <2>1 DEF AlertRows
  <2>3. (row.open /\ row.id \notin M) \in BOOLEAN /\ row.open \in BOOLEAN
    BY <2>1 DEF AlertRows
  <2>4. [row EXCEPT !.open = row.open] = row
    BY <2>1 DEF AlertRows
  <2>5. row.id \notin M => (row.open /\ row.id \notin M) = row.open
    BY <2>3
  <2> QED BY <2>1, <2>2, <2>3, <2>4, <2>5
<1>6. /\ alerts' = {shut(row) : row \in alerts}
      /\ \A row \in alerts' : \E old \in alerts : row = shut(old)
      /\ \A old \in alerts : shut(old) \in alerts'
  BY <1>1
<1> HIDE DEF shut, M, K
<1>7. AlertTypeOK'
  <2>1. alerts' \subseteq AlertRows
    BY <1>5, <1>6
  <2>2. heard' \in [AlertKeys -> {"nothing", "outage", "end"}]
    BY <1>1 DEF AlertTypeOK
  <2> QED BY <1>1, <1>3, <2>1, <2>2 DEF AlertTypeOK, Becomes, DeliveryRecords, AlertRows
<1>8. RowsAreOfDone'
  <2>1. \A row \in alerts' : delivery'[row.id].step = "done"
    <3> TAKE row \in alerts'
    <3>1. PICK old \in alerts : row = shut(old)
      BY <1>6
    <3>2. old.id = row.id /\ old.id \in Deliveries /\ delivery[old.id].step = "done"
      BY <3>1, <1>5 DEF AlertInv, RowsAreOfDone, AlertRows
    <3> QED BY <3>2, <1>3 DEF Becomes
  <2>2. \A row, other \in alerts' : row.id = other.id => row = other
    <3> SUFFICES ASSUME NEW row \in alerts', NEW other \in alerts', row.id = other.id PROVE row = other
      OBVIOUS
    <3>1. PICK a \in alerts : row = shut(a)
      BY <1>6
    <3>2. PICK b \in alerts : other = shut(b)
      BY <1>6
    <3>3. a.id = b.id
      BY <1>5, <3>1, <3>2
    <3> QED BY <3>1, <3>2, <3>3 DEF AlertInv, RowsAreOfDone
  <2> QED BY <2>1, <2>2 DEF RowsAreOfDone
<1>9. \A k \in AlertKeys : k # K => OpenAlerts(k)' = OpenAlerts(k)
  <2> SUFFICES ASSUME NEW k \in AlertKeys, k # K PROVE OpenAlerts(k)' = OpenAlerts(k)
    OBVIOUS
  <2>1. \A row \in alerts : row.key = k => row.id \notin M
    BY <1>1 DEF AlertInv, MatchesAreOfKey, K, M
  <2>2. \A row \in alerts : row.key = k => shut(row) = row
    BY <2>1, <1>5
  <2>3. ASSUME NEW row \in OpenAlerts(k) PROVE row \in OpenAlerts(k)'
    BY <2>2, <1>6 DEF OpenAlerts
  <2>4. ASSUME NEW row \in OpenAlerts(k)' PROVE row \in OpenAlerts(k)
    <3>1. PICK old \in alerts : row = shut(old)
      BY <1>6 DEF OpenAlerts
    <3>2. old.key = k
      BY <3>1, <1>5 DEF OpenAlerts
    <3> QED BY <3>1, <3>2, <2>2 DEF OpenAlerts
  <2> QED BY <2>3, <2>4
<1>10. K \notin muddled => t \in EndTexts /\ OpenAlerts(K)' = {}
  <2> SUFFICES ASSUME K \notin muddled PROVE t \in EndTexts /\ OpenAlerts(K)' = {}
    OBVIOUS
  <2>1. t \in EndTexts /\ \A row \in OpenAlerts(K) : row.id \in M
    BY <1>1, <1>4 DEF AlertInv, LookUpsHold, M
  <2>2. ASSUME NEW row \in OpenAlerts(K)' PROVE FALSE
    <3>1. PICK old \in alerts : row = shut(old)
      BY <1>6 DEF OpenAlerts
    <3>2. old.key = K /\ old.open /\ old.id \notin M
      BY <3>1, <1>5 DEF OpenAlerts
    <3> QED BY <3>2, <2>1 DEF OpenAlerts
  <2> QED BY <2>1, <2>2
<1>11. MatchesAreOfKey'
  <2> SUFFICES ASSUME NEW e \in Deliveries, delivery'[e].step = "close"
               PROVE  /\ \A i \in delivery'[e].match : delivery'[i].step = "done"
                      /\ \A u \in delivery'[e].text : \A row \in alerts' : row.id \in delivery'[e].match => row.key = KeyOfText[u]
    BY DEF MatchesAreOfKey
  <2>1. e # d /\ delivery'[e] = delivery[e] /\ delivery[e].match \subseteq Deliveries
    BY <1>1, <1>3 DEF Becomes, AlertTypeOK
  <2>2. \A i \in delivery[e].match : delivery'[i].step = "done"
    BY <2>1, <1>3 DEF AlertInv, MatchesAreOfKey, Becomes
  <2>3. \A u \in delivery[e].text : \A row \in alerts' : row.id \in delivery[e].match => row.key = KeyOfText[u]
    <3> SUFFICES ASSUME NEW u \in delivery[e].text, NEW row \in alerts', row.id \in delivery[e].match
                 PROVE  row.key = KeyOfText[u]
      OBVIOUS
    <3>1. PICK old \in alerts : row = shut(old)
      BY <1>6
    <3> QED BY <2>1, <3>1, <1>5 DEF AlertInv, MatchesAreOfKey
  <2> QED BY <2>1, <2>2, <2>3
<1>12. OneAtATime'
  BY <1>1, <1>4 DEF AlertInv, OneAtATime
<1>13. RowIsOpen'
  <2> SUFFICES ASSUME NEW k \in AlertKeys \ muddled
               PROVE  IF heard'[k] = "outage" THEN \E row \in alerts' : OpenAlerts(k)' = {row} ELSE OpenAlerts(k)' = {}
    BY <1>1 DEF RowIsOpen
  <2>1. CASE k = K
    BY <1>1, <1>10, <2>1 DEF AlertTypeOK
  <2>2. CASE k # K
    <3>1. heard'[k] = heard[k] /\ OpenAlerts(k)' = OpenAlerts(k)
      BY <1>1, <1>9, <2>2 DEF AlertTypeOK
    <3>2. OpenAlerts(k)' \subseteq alerts'
      BY DEF OpenAlerts
    <3> QED BY <3>1, <3>2 DEF AlertInv, RowIsOpen
  <2> QED BY <2>1, <2>2
<1>14. LookUpsHold'
  <2> SUFFICES ASSUME NEW k \in AlertKeys \ muddled, NEW e \in InHand(k)'
               PROVE  /\ delivery'[e].step = "insert" => OpenAlerts(k)' = {}
                      /\ delivery'[e].step = "close" => /\ delivery'[e].text \subseteq EndTexts
                                                        /\ \A row \in OpenAlerts(k)' : row.id \in delivery'[e].match
    BY <1>1 DEF LookUpsHold
  <2>1. k # K /\ e # d /\ e \in InHand(k) /\ e \in Deliveries
    BY <1>4 DEF InHand
  <2> QED BY <2>1, <1>3, <1>9 DEF AlertInv, LookUpsHold, Becomes
<1> QED BY <1>4, <1>7, <1>8, <1>11, <1>12, <1>13, <1>14 DEF AlertInv

LEMMA InsertingKeepsAlerts ==
    ASSUME AlertInv, NEW d \in Deliveries, NEW t \in AlertTexts, InsertAlert(d, t) PROVE AlertInv'
<1> DEFINE K == KeyOfText[t]
           M == delivery[d].match
           new == [id |-> d, key |-> K, text |-> t, open |-> t \notin EndTexts]
<1>1. /\ delivery[d].step = "insert" /\ delivery[d].text = {t} /\ delivery[d].step \in Busy
      /\ alerts' = alerts \union {new}
      /\ delivery' = [delivery EXCEPT ![d].step = "done"]
      /\ heard' = [heard EXCEPT ![K] = IF t \in EndTexts THEN "end" ELSE "outage"]
      /\ UNCHANGED muddled /\ AlertTypeOK /\ K \in AlertKeys
  BY AlertAssumption DEF InsertAlert, Handles, Handled, Busy, AlertInv, AlertKeys
<1>2. M \in SUBSET Deliveries
  BY <1>1 DEF AlertTypeOK
<1>3. Becomes(d, "done", M)
  BY <1>1, <1>2, StepBecomes
<1>4. /\ \A k \in AlertKeys : d \in InHand(k) <=> k = K
      /\ \A k \in AlertKeys : InHand(k)' \subseteq InHand(k)
      /\ \A k \in AlertKeys : d \notin InHand(k)'
      /\ K \notin muddled => InHand(K)' = {}
      /\ OneText'
  BY <1>1, <1>2, <1>3, HandedOn DEF Busy
<1>5. new \in AlertRows /\ new.id = d /\ new.key = K /\ new.open = (t \notin EndTexts)
  BY <1>1 DEF AlertRows
<1> HIDE DEF new, M, K
<1>6. AlertTypeOK'
  <2>1. heard' \in [AlertKeys -> {"nothing", "outage", "end"}]
    BY <1>1 DEF AlertTypeOK
  <2> QED BY <1>1, <1>3, <1>5, <2>1 DEF AlertTypeOK, Becomes, DeliveryRecords, AlertRows
<1>7. \A row \in alerts : row.id \in Deliveries /\ row.id # d /\ delivery[row.id].step = "done"
  BY <1>1 DEF AlertInv, RowsAreOfDone, AlertTypeOK
<1>8. RowsAreOfDone'
  BY <1>1, <1>3, <1>5, <1>7 DEF AlertInv, RowsAreOfDone, Becomes
<1>9. /\ \A k \in AlertKeys : k # K => OpenAlerts(k)' = OpenAlerts(k)
      /\ OpenAlerts(K)' = IF t \in EndTexts THEN OpenAlerts(K) ELSE OpenAlerts(K) \union {new}
  BY <1>1, <1>5 DEF OpenAlerts
<1>10. MatchesAreOfKey'
  <2> SUFFICES ASSUME NEW e \in Deliveries, delivery'[e].step = "close"
               PROVE  /\ \A i \in delivery'[e].match : delivery'[i].step = "done"
                      /\ \A u \in delivery'[e].text : \A row \in alerts' : row.id \in delivery'[e].match => row.key = KeyOfText[u]
    BY DEF MatchesAreOfKey
  <2>1. e # d /\ delivery'[e] = delivery[e] /\ delivery[e].match \subseteq Deliveries
    BY <1>1, <1>3 DEF Becomes, AlertTypeOK
  <2>2. \A i \in delivery[e].match : delivery[i].step = "done" /\ i # d
    BY <1>1, <2>1 DEF AlertInv, MatchesAreOfKey
  <2> QED BY <1>1, <1>3, <1>5, <2>1, <2>2 DEF AlertInv, MatchesAreOfKey, Becomes
<1>11. OneAtATime'
  BY <1>1, <1>4 DEF AlertInv, OneAtATime
<1>12. RowIsOpen'
  <2> SUFFICES ASSUME NEW k \in AlertKeys \ muddled
               PROVE  IF heard'[k] = "outage" THEN \E row \in alerts' : OpenAlerts(k)' = {row} ELSE OpenAlerts(k)' = {}
    BY <1>1 DEF RowIsOpen
  <2>1. CASE k = K
    <3>1. OpenAlerts(K) = {}
      BY <1>1, <1>4, <2>1 DEF AlertInv, LookUpsHold
    <3>2. heard'[k] = IF t \in EndTexts THEN "end" ELSE "outage"
      BY <1>1, <2>1 DEF AlertTypeOK
    <3> QED BY <1>1, <1>9, <2>1, <3>1, <3>2
  <2>2. CASE k # K
    <3>1. heard'[k] = heard[k] /\ OpenAlerts(k)' = OpenAlerts(k)
      BY <1>1, <1>9, <2>2 DEF AlertTypeOK
    <3> QED BY <1>1, <3>1 DEF AlertInv, RowIsOpen
  <2> QED BY <2>1, <2>2
<1>13. LookUpsHold'
  <2> SUFFICES ASSUME NEW k \in AlertKeys \ muddled, NEW e \in InHand(k)'
               PROVE  /\ delivery'[e].step = "insert" => OpenAlerts(k)' = {}
                      /\ delivery'[e].step = "close" => /\ delivery'[e].text \subseteq EndTexts
                                                        /\ \A row \in OpenAlerts(k)' : row.id \in delivery'[e].match
    BY <1>1 DEF LookUpsHold
  <2>1. k # K /\ e # d /\ e \in InHand(k) /\ e \in Deliveries
    BY <1>4 DEF InHand
  <2> QED BY <2>1, <1>3, <1>9 DEF AlertInv, LookUpsHold, Becomes
<1> QED BY <1>4, <1>6, <1>8, <1>10, <1>11, <1>12, <1>13 DEF AlertInv

LEMMA AlertStepKeeps == ASSUME AlertInv, [AlertNext]_alertVars PROVE AlertInv'
<1>1. CASE UNCHANGED alertVars
  BY <1>1 DEF alertVars, AlertInv, AlertTypeOK, OneText, RowsAreOfDone, MatchesAreOfKey, OneAtATime, LookUpsHold,
              RowIsOpen, InHand, OpenAlerts
<1>2. ASSUME NEW d \in Deliveries, NEW t \in AlertTexts,
             ReceiveAlert(d, t) \/ FindOpen(d, t) \/ CloseAlert(d, t) \/ InsertAlert(d, t) \/ AlertFails(d, t)
      PROVE  AlertInv'
  BY <1>2, ReceivingKeeps, FindingKeepsAlerts, ClosingKeeps, InsertingKeepsAlerts, FailingKeepsAlerts
<1> QED BY <1>1, <1>2 DEF AlertNext

\* However many texts and POSTs: where those of a key came one after another and none
\* failed, one row of it is open exactly if the last one told of an outage.
THEOREM LastHeardIsOpen == AlertSpec => []OpenIsLastHeard
<1>1. AlertInv => OpenIsLastHeard
  <2> SUFFICES ASSUME AlertInv, NEW k \in AlertKeys \ muddled
               PROVE  Cardinality(OpenAlerts(k)) = IF heard[k] = "outage" THEN 1 ELSE 0
    BY DEF OpenIsLastHeard
  <2>1. IF heard[k] = "outage" THEN \E row \in alerts : OpenAlerts(k) = {row} ELSE OpenAlerts(k) = {}
    BY DEF AlertInv, RowIsOpen
  <2> QED BY <2>1, FS_EmptySet, FS_Singleton
<1> QED BY <1>1, AlertsInitially, AlertStepKeeps, PTL DEF AlertSpec

-----------------------------------------------------------------------------
(* Rows that people edit.                                                  *)

EditRecords == [step : {"idle", "list", "read", "write", "audit", "done", "refused", "failed"},
                row : Rows, kind : EditKinds, found : BOOLEAN, version : Nat,
                previous : Edits \union {Default}]
RegisterRows == [stored : BOOLEAN, version : Nat, holds : Edits \union {Default}]
TrailRows == [before : Edits \union {Default}, after : Edits \union {Default}]

\* What an edit read holds until its write, unless a removal came in between; and what
\* it wrote holds after it.
ReadingsHold ==
    \A e \in Edits \ withdrawn :
        editing[e].kind = "save" =>
            /\ editing[e].step = "write" /\ editing[e].found => register[editing[e].row].stored
            /\ editing[e].step \in {"audit", "done"} => register[editing[e].row].stored

RepliesAreListed == \A e \in Edits : editing[e].step \in {"list", "audit"} => editing[e].row = "reply"

\* What the audit says the reply holds, and what an edit of it puts there.
LastTold == IF trail = <<>> THEN Default ELSE trail[Len(trail)].after
Puts(e) == IF editing[e].kind = "save" THEN e ELSE Default

OneEditAtATime == "reply" \notin blended => \A e, f \in UnderWay("reply") : e = f

\* The reply holds what the audit says, until the write of an edit whose audit row
\* is still to come; that edit knows what was there before.
ReplyIsTold ==
    "reply" \notin blended =>
        /\ \A i \in 1 .. Len(trail) : trail[i].before = IF i = 1 THEN Default ELSE trail[i-1].after
        /\ \A e \in UnderWay("reply") :
              /\ editing[e].step # "audit" => register["reply"].holds = LastTold
              /\ editing[e].step # "list" => editing[e].previous = LastTold
              /\ editing[e].step = "audit" => register["reply"].holds = Puts(e)
        /\ UnderWay("reply") = {} => register["reply"].holds = LastTold

RegisterInv == RegisterTypeOK /\ ReadingsHold /\ RepliesAreListed /\ OneEditAtATime /\ ReplyIsTold

LEMMA RegistersInitially == RegisterInit => RegisterInv
<1> SUFFICES ASSUME RegisterInit PROVE RegisterInv
  OBVIOUS
<1>1. RegisterTypeOK
  <2>1. NewEdit \in EditRecords
    BY DEF NewEdit, EditRecords, Rows, EditKinds
  <2>2. register \in [Rows -> RegisterRows]
    BY DEF RegisterInit, RegisterRows
  <2>3. editing \in [Edits -> EditRecords]
    BY <2>1 DEF RegisterInit
  <2>4. trail \in Seq(TrailRows)
    BY DEF RegisterInit
  <2> QED BY <2>2, <2>3, <2>4 DEF RegisterInit, RegisterTypeOK, EditRecords, RegisterRows, TrailRows
<1>2. \A e \in Edits : editing[e].step = "idle" /\ editing[e].found = FALSE
  BY DEF RegisterInit, NewEdit
<1>3. UnderWay("reply") = {}
  BY <1>2 DEF UnderWay
<1>4. ReadingsHold /\ RepliesAreListed /\ OneEditAtATime
  BY <1>2, <1>3 DEF ReadingsHold, RepliesAreListed, OneEditAtATime
<1>5. trail = <<>> /\ register["reply"].holds = Default /\ Len(trail) = 0
  BY DEF RegisterInit, Rows
<1>6. ReplyIsTold
  BY <1>3, <1>5 DEF ReplyIsTold, LastTold
<1> QED BY <1>1, <1>4, <1>6 DEF RegisterInv

\* A step of an edit that keeps its row and kind.
Edited(e, s) ==
    /\ editing' \in [Edits -> EditRecords]
    /\ editing'[e].step = s /\ editing'[e].row = editing[e].row /\ editing'[e].kind = editing[e].kind
    /\ \A f \in Edits : f # e => editing'[f] = editing[f]

\* Of a function that changes at one place.
LEMMA OnePlaceChanges ==
    ASSUME NEW S, NEW T, NEW f \in [S -> T], NEW e \in S, NEW new \in T, NEW changed,
           changed = [f EXCEPT ![e] = new]
    PROVE  /\ changed \in [S -> T] /\ changed[e] = new
           /\ \A d \in S : d # e => changed[d] = f[d]
  OBVIOUS

LEMMA EditMoves ==
    ASSUME RegisterTypeOK, NEW e \in Edits, NEW s \in {"read", "write", "audit", "done", "refused", "failed"},
           editing' = [editing EXCEPT ![e].step = s]
    PROVE  Edited(e, s) /\ editing'[e].found = editing[e].found /\ editing'[e].previous = editing[e].previous
<1> DEFINE r == editing[e]
           new == [r EXCEPT !.step = s]
<1>1. r \in EditRecords /\ editing \in [Edits -> EditRecords] /\ editing' = [editing EXCEPT ![e] = new]
  BY DEF RegisterTypeOK, EditRecords
<1> HIDE DEF r
<1>2. /\ new \in EditRecords /\ new.step = s /\ new.row = r.row /\ new.kind = r.kind
      /\ new.found = r.found /\ new.previous = r.previous
  BY <1>1 DEF EditRecords
<1> HIDE DEF new
<1>3. /\ editing' \in [Edits -> EditRecords] /\ editing'[e] = new
      /\ \A f \in Edits : f # e => editing'[f] = editing[f]
  BY <1>1, <1>2
<1> QED BY <1>2, <1>3 DEF Edited, r

LEMMA EditReads ==
    ASSUME RegisterTypeOK, NEW e \in Edits, NEW s \in {"read", "write", "audit", "done", "refused", "failed"},
           NEW b \in BOOLEAN, NEW n \in Nat,
           editing' = [editing EXCEPT ![e].step = s, ![e].found = b, ![e].version = n]
    PROVE  Edited(e, s) /\ editing'[e].found = b /\ editing'[e].previous = editing[e].previous
<1> DEFINE r == editing[e]
           new == [r EXCEPT !.step = s, !.found = b, !.version = n]
<1>1. r \in EditRecords /\ editing \in [Edits -> EditRecords] /\ editing' = [editing EXCEPT ![e] = new]
  BY DEF RegisterTypeOK, EditRecords
<1> HIDE DEF r
<1>2. /\ new \in EditRecords /\ new.step = s /\ new.row = r.row /\ new.kind = r.kind
      /\ new.found = b /\ new.previous = r.previous
  BY <1>1 DEF EditRecords
<1> HIDE DEF new
<1>3. /\ editing' \in [Edits -> EditRecords] /\ editing'[e] = new
      /\ \A f \in Edits : f # e => editing'[f] = editing[f]
  BY ONLY <1>1, <1>2, OnePlaceChanges, e \in Edits
<1> QED BY <1>2, <1>3 DEF Edited, r

\* What a step leaves of the edits of the reply that are under way.
LEMMA StillUnderWay ==
    ASSUME NEW e \in Edits, NEW s, Edited(e, s)
    PROVE  /\ \A f \in Edits : f # e => (f \in UnderWay("reply")' <=> f \in UnderWay("reply"))
           /\ e \in UnderWay("reply")' <=> editing[e].row = "reply" /\ s \in {"list", "read", "write", "audit"}
           /\ \A f \in UnderWay("reply")' : f \in Edits
  BY DEF Edited, UnderWay

\* A step before the write: the rows and the audit are as they were.
LEMMA QuietEditKeeps ==
    ASSUME RegisterInv, NEW e \in Edits, NEW s \in {"read", "write", "refused", "failed"}, Edited(e, s),
           editing[e].step \in {"list", "read", "write"},
           UNCHANGED <<register, trail, withdrawn, blended>>,
           s \in {"read", "write"} =>
               editing'[e].previous = IF editing[e].step = "list" THEN register["reply"].holds ELSE editing[e].previous,
           s = "write" /\ editing[e].kind = "save" /\ editing'[e].found => register[editing[e].row].stored
    PROVE  RegisterInv'
<1>1. RegisterTypeOK'
  BY DEF RegisterInv, RegisterTypeOK, Edited, EditRecords
<1>2. ReadingsHold'
  BY DEF RegisterInv, ReadingsHold, Edited
<1>3. RepliesAreListed'
  BY DEF RegisterInv, RepliesAreListed, Edited
<1>4. UnderWay("reply")' \subseteq UnderWay("reply")
  BY StillUnderWay DEF UnderWay, Edited
<1>5. OneEditAtATime'
  BY <1>4 DEF RegisterInv, OneEditAtATime
<1>6. ReplyIsTold'
  <2> SUFFICES ASSUME "reply" \notin blended PROVE ReplyIsTold'
    BY DEF ReplyIsTold
  <2>1. /\ \A i \in 1 .. Len(trail) : trail[i].before = IF i = 1 THEN Default ELSE trail[i-1].after
        /\ \A f \in UnderWay("reply") :
              /\ editing[f].step # "audit" => register["reply"].holds = LastTold
              /\ editing[f].step # "list" => editing[f].previous = LastTold
              /\ editing[f].step = "audit" => register["reply"].holds = Puts(f)
        /\ UnderWay("reply") = {} => register["reply"].holds = LastTold
    BY DEF RegisterInv, ReplyIsTold
  <2>2. LastTold' = LastTold
    BY DEF LastTold
  <2>3. ASSUME NEW f \in UnderWay("reply")'
        PROVE  /\ editing'[f].step # "audit" => register["reply"].holds = LastTold
               /\ editing'[f].step # "list" => editing'[f].previous = LastTold
               /\ editing'[f].step = "audit" => register["reply"].holds = Puts(f)'
    <3>1. f \in UnderWay("reply") /\ f \in Edits
      BY <1>4 DEF UnderWay
    <3>2. CASE f # e
      BY <2>1, <3>1, <3>2 DEF Edited, Puts
    <3>3. CASE f = e
      <4>1. s \in {"read", "write"} /\ editing'[f].step = s
        BY <3>3 DEF UnderWay, Edited
      <4> QED BY <2>1, <3>1, <3>3, <4>1
    <3> QED BY <3>2, <3>3
  <2>4. UnderWay("reply")' = {} => register["reply"].holds = LastTold
    <3>1. CASE UnderWay("reply") = {}
      BY <2>1, <3>1
    <3>2. CASE e \in UnderWay("reply")
      BY <2>1, <3>2
    <3>3. CASE \E f \in UnderWay("reply") : f # e
      BY <3>3, StillUnderWay DEF UnderWay
    <3> QED BY <3>1, <3>2, <3>3
  <2> QED BY <2>1, <2>2, <2>3, <2>4 DEF ReplyIsTold
<1> QED BY <1>1, <1>2, <1>3, <1>5, <1>6 DEF RegisterInv

\* A write: the row of the edit changes, no other one.
LEMMA WritingKeepsRow ==
    ASSUME RegisterTypeOK, NEW e \in Edits, NEW g \in Rows, NEW new \in RegisterRows,
           register' = [register EXCEPT ![g] = new]
    PROVE  /\ register' \in [Rows -> RegisterRows]
           /\ register'[g] = new
           /\ \A h \in Rows : h # g => register'[h] = register[h]
  BY DEF RegisterTypeOK, RegisterRows

\* The save of an edit stores its row, or finds it gone; of the reply there is one edit under way.
LEMMA SavingKeeps ==
    ASSUME RegisterInv, NEW e \in Edits, NEW s \in {"audit", "done"}, Edited(e, s),
           editing[e].step = "write", editing[e].kind = "save",
           s = "audit" <=> editing[e].row = "reply",
           register' \in [Rows -> RegisterRows],
           \A h \in Rows : h # editing[e].row => register'[h] = register[h],
           register'[editing[e].row].stored \/ e \in withdrawn,
           register[editing[e].row].stored => register'[editing[e].row].stored,
           editing[e].row = "reply" => register'["reply"].holds = e,
           editing'[e].previous = editing[e].previous,
           UNCHANGED <<trail, withdrawn, blended>>
    PROVE  RegisterInv'
<1>1. RegisterTypeOK'
  BY DEF RegisterInv, RegisterTypeOK, Edited, EditRecords, RegisterRows
<1>0. \A f \in Edits : editing[f].row \in Rows
  BY DEF RegisterInv, RegisterTypeOK
<1>2. ReadingsHold'
  BY <1>0 DEF RegisterInv, ReadingsHold, Edited
<1>3. RepliesAreListed'
  BY DEF RegisterInv, RepliesAreListed, Edited
<1>4. UnderWay("reply")' \subseteq UnderWay("reply")
  BY StillUnderWay DEF UnderWay, Edited
<1>5. OneEditAtATime'
  BY <1>4 DEF RegisterInv, OneEditAtATime
<1>6. LastTold' = LastTold
  BY DEF LastTold
<1>7. CASE editing[e].row = "reply"
  <2> SUFFICES ASSUME "reply" \notin blended PROVE ReplyIsTold'
    BY <1>1, <1>2, <1>3, <1>5 DEF ReplyIsTold, RegisterInv
  <2>1. e \in UnderWay("reply") /\ editing[e].previous = LastTold
    BY <1>7 DEF RegisterInv, ReplyIsTold, UnderWay
  <2>2. UnderWay("reply")' = {e}
    <3>1. e \in UnderWay("reply")'
      BY <1>7, StillUnderWay
    <3>2. \A f \in UnderWay("reply")' : f = e
      BY <1>4, <2>1 DEF RegisterInv, OneEditAtATime
    <3> QED BY <3>1, <3>2
  <2>3. /\ editing'[e].step = "audit" /\ editing'[e].previous = LastTold
        /\ register'["reply"].holds = Puts(e)'
    BY <1>7, <2>1 DEF Edited, Puts
  <2>4. \A i \in 1 .. Len(trail) : trail[i].before = IF i = 1 THEN Default ELSE trail[i-1].after
    BY DEF RegisterInv, ReplyIsTold
  <2> QED BY <1>6, <2>2, <2>3, <2>4 DEF ReplyIsTold
<1>8. CASE editing[e].row # "reply"
  <2>1. UnderWay("reply")' = UnderWay("reply") /\ e \notin UnderWay("reply")
    BY <1>8, StillUnderWay DEF UnderWay
  <2>2. register'["reply"] = register["reply"]
    BY <1>8 DEF Rows
  <2>3. \A f \in UnderWay("reply") : f \in Edits /\ f # e /\ editing'[f] = editing[f] /\ Puts(f)' = Puts(f)
    BY <2>1 DEF UnderWay, Edited, Puts
  <2>4. ReplyIsTold'
    BY <1>6, <2>1, <2>2, <2>3 DEF RegisterInv, ReplyIsTold
  <2> QED BY <1>1, <1>2, <1>3, <1>5, <2>4 DEF RegisterInv
<1> QED BY <1>7, <1>8

LEMMA RemovingKeeps == ASSUME RegisterInv, NEW e \in Edits, RemoveRow(e) PROVE RegisterInv'
<1> DEFINE g == editing[e].row
           gone == [stored |-> FALSE, version |-> 0, holds |-> Default]
           s == IF g = "reply" THEN "audit" ELSE "done"
<1>1. /\ editing[e].step = "write" /\ editing[e].kind = "remove"
      /\ register' = [register EXCEPT ![g] = gone]
      /\ withdrawn' = withdrawn \union {o \in Edits : editing[o].row = g /\ editing[o].step # "idle"}
      /\ editing' = [editing EXCEPT ![e].step = s] /\ UNCHANGED <<trail, blended>>
      /\ RegisterTypeOK
  BY DEF RemoveRow, Editing, Ends, Turns, RegisterInv
<1>2. gone \in RegisterRows /\ gone.holds = Default /\ g \in Rows /\ s \in {"audit", "done"}
  BY <1>1 DEF RegisterRows, RegisterTypeOK
<1>3. /\ editing' \in [Edits -> EditRecords] /\ Edited(e, s) /\ editing'[e].previous = editing[e].previous
  BY <1>1, <1>2, EditMoves DEF Edited
<1> HIDE DEF gone
<1>4. /\ register' \in [Rows -> RegisterRows] /\ register'[g] = gone
      /\ \A h \in Rows : h # g => register'[h] = register[h]
  BY <1>1, <1>2, WritingKeepsRow
<1> HIDE DEF g, s
<1>5. RegisterTypeOK'
  BY <1>1, <1>3, <1>4 DEF RegisterTypeOK, EditRecords, RegisterRows
<1>6. ReadingsHold'
  <2> SUFFICES ASSUME NEW f \in Edits \ withdrawn', editing'[f].kind = "save"
               PROVE  /\ editing'[f].step = "write" /\ editing'[f].found => register'[editing'[f].row].stored
                      /\ editing'[f].step \in {"audit", "done"} => register'[editing'[f].row].stored
    BY DEF ReadingsHold
  <2>1. f # e /\ editing'[f] = editing[f] /\ f \notin withdrawn /\ editing[f].row \in Rows
    BY <1>1, <1>3 DEF Edited, RegisterTypeOK
  <2>2. CASE editing[f].row = g
    BY <1>1, <2>1, <2>2
  <2>3. CASE editing[f].row # g
    BY <1>4, <2>1, <2>3 DEF RegisterInv, ReadingsHold
  <2> QED BY <2>2, <2>3
<1>7. RepliesAreListed'
  BY <1>3 DEF RegisterInv, RepliesAreListed, Edited, s, g
<1>8. UnderWay("reply")' \subseteq UnderWay("reply")
  BY <1>1, <1>3, StillUnderWay DEF UnderWay, Edited
<1>9. OneEditAtATime'
  BY <1>1, <1>8 DEF RegisterInv, OneEditAtATime
<1>0. UNCHANGED <<trail, blended>>
  BY <1>1
<1>10. LastTold' = LastTold
  BY <1>0 DEF LastTold
<1>11. ASSUME g = "reply" PROVE ReplyIsTold'
  <2> SUFFICES ASSUME "reply" \notin blended PROVE ReplyIsTold'
    BY <1>0 DEF ReplyIsTold
  <2>1. e \in UnderWay("reply") /\ editing[e].previous = LastTold
    BY <1>1, <1>11 DEF RegisterInv, ReplyIsTold, UnderWay, g
  <2>2. UnderWay("reply")' = {e}
    <3>1. e \in UnderWay("reply")'
      BY <1>3, <1>11, StillUnderWay DEF g, s
    <3>2. \A f \in UnderWay("reply")' : f = e
      BY <1>8, <2>1 DEF RegisterInv, OneEditAtATime
    <3> QED BY <3>1, <3>2
  <2>3. /\ editing'[e].step = "audit" /\ editing'[e].previous = LastTold
        /\ register'["reply"].holds = Puts(e)'
    BY <1>1, <1>2, <1>3, <1>4, <1>11, <2>1 DEF Edited, Puts, s
  <2>4. \A i \in 1 .. Len(trail) : trail[i].before = IF i = 1 THEN Default ELSE trail[i-1].after
    BY DEF RegisterInv, ReplyIsTold
  <2> QED BY <1>0, <1>10, <2>2, <2>3, <2>4 DEF ReplyIsTold
<1>12. ASSUME g # "reply" PROVE ReplyIsTold'
  <2>1. UnderWay("reply")' = UnderWay("reply") /\ e \notin UnderWay("reply")
    BY <1>3, <1>12, StillUnderWay DEF UnderWay, g
  <2>2. register'["reply"] = register["reply"]
    BY <1>4, <1>12 DEF Rows
  <2>3. \A f \in UnderWay("reply") : f \in Edits /\ f # e /\ editing'[f] = editing[f] /\ Puts(f)' = Puts(f)
    BY <1>3, <2>1 DEF UnderWay, Edited, Puts
  <2> QED BY <1>0, <1>10, <2>1, <2>2, <2>3 DEF RegisterInv, ReplyIsTold
<1> QED BY <1>5, <1>6, <1>7, <1>9, <1>11, <1>12 DEF RegisterInv

LEMMA BeginningKeepsRegisters ==
    ASSUME RegisterInv, NEW e \in Edits, NEW g \in Rows, NEW kind \in EditKinds, BeginEdit(e, g, kind)
    PROVE  RegisterInv'
<1> DEFINE s == IF g = "reply" THEN "list" ELSE "read"
           new == [NewEdit EXCEPT !.step = s, !.row = g, !.kind = kind]
<1>1. /\ editing[e].step = "idle" /\ editing' = [editing EXCEPT ![e] = new]
      /\ blended' = IF UnderWay(g) = {} THEN blended ELSE blended \union {g}
      /\ UNCHANGED <<register, trail, withdrawn>> /\ RegisterTypeOK
  BY DEF BeginEdit, Editing, RegisterInv
<1>2. new \in EditRecords /\ new.step = s /\ new.row = g /\ new.kind = kind /\ new.found = FALSE
  BY DEF EditRecords, NewEdit
<1> HIDE DEF new
<1>3. /\ editing' \in [Edits -> EditRecords] /\ editing'[e] = new
      /\ \A f \in Edits : f # e => editing'[f] = editing[f]
  BY <1>1, <1>2 DEF RegisterTypeOK, EditRecords
<1>4. RegisterTypeOK'
  BY <1>1, <1>3 DEF RegisterTypeOK, EditRecords
<1>5. ReadingsHold' /\ RepliesAreListed'
  BY <1>1, <1>2, <1>3 DEF RegisterInv, ReadingsHold, RepliesAreListed
<1>6. \A f \in Edits : f # e => (f \in UnderWay("reply")' <=> f \in UnderWay("reply"))
  BY <1>3 DEF UnderWay
<1>7. e \notin UnderWay("reply")
  BY <1>1 DEF UnderWay
<1>8. e \in UnderWay("reply")' <=> g = "reply"
  BY <1>2, <1>3 DEF UnderWay
<1>9. UnderWay("reply")' \subseteq Edits /\ UnderWay("reply") \subseteq Edits
  BY DEF UnderWay
<1>10. LastTold' = LastTold
  BY <1>1 DEF LastTold
<1>11. CASE g # "reply"
  <2>1. UnderWay("reply")' = UnderWay("reply")
    BY <1>6, <1>7, <1>8, <1>9, <1>11
  <2>2. "reply" \notin blended' => "reply" \notin blended
    BY <1>1
  <2>3. \A f \in UnderWay("reply") : editing'[f] = editing[f] /\ Puts(f)' = Puts(f)
    BY <1>3, <1>7, <1>9 DEF Puts
  <2>4. OneEditAtATime'
    BY <2>1, <2>2 DEF RegisterInv, OneEditAtATime
  <2>5. ReplyIsTold'
    BY <1>1, <1>10, <2>1, <2>2, <2>3 DEF RegisterInv, ReplyIsTold
  <2> QED BY <1>4, <1>5, <2>4, <2>5 DEF RegisterInv
<1>12. CASE g = "reply"
  <2> SUFFICES ASSUME "reply" \notin blended' PROVE OneEditAtATime' /\ ReplyIsTold'
    BY <1>4, <1>5 DEF RegisterInv, OneEditAtATime, ReplyIsTold
  <2>1. "reply" \notin blended /\ UnderWay("reply") = {}
    BY <1>1, <1>12
  <2>2. UnderWay("reply")' = {e}
    BY <1>6, <1>8, <1>9, <1>12, <2>1
  <2>3. /\ editing'[e].step = "list" /\ register["reply"].holds = LastTold
        /\ \A i \in 1 .. Len(trail) : trail[i].before = IF i = 1 THEN Default ELSE trail[i-1].after
    BY <1>2, <1>3, <1>12, <2>1 DEF RegisterInv, ReplyIsTold
  <2> QED BY <1>1, <1>10, <2>2, <2>3 DEF OneEditAtATime, ReplyIsTold
<1> QED BY <1>11, <1>12

LEMMA AuditingKeeps == ASSUME RegisterInv, NEW e \in Edits, AuditReply(e) PROVE RegisterInv'
<1> DEFINE new == [before |-> editing[e].previous, after |-> IF editing[e].kind = "save" THEN e ELSE Default]
<1>1. /\ editing[e].step = "audit" /\ editing' = [editing EXCEPT ![e].step = "done"]
      /\ \/ trail' = Append(trail, new) /\ UNCHANGED blended
         \/ blended' = blended \union {"reply"} /\ UNCHANGED trail
      /\ UNCHANGED <<register, withdrawn>> /\ RegisterTypeOK
  BY DEF AuditReply, Editing, Turns, RegisterInv
<1>2. Edited(e, "done") /\ editing[e].row = "reply"
  BY <1>1, EditMoves DEF RegisterInv, RepliesAreListed
<1>3. new \in TrailRows /\ new.before = editing[e].previous /\ new.after = Puts(e)
  BY <1>1 DEF TrailRows, RegisterTypeOK, Puts
<1> HIDE DEF new
<1>4. trail \in Seq(TrailRows)
  BY <1>1 DEF RegisterTypeOK, TrailRows
<1>5. trail' \in Seq(TrailRows)
  BY <1>1, <1>3, <1>4, AppendProperties
<1>6. RegisterTypeOK'
  BY <1>1, <1>2, <1>5 DEF RegisterTypeOK, Edited, EditRecords, TrailRows, Rows
<1>7. ReadingsHold' /\ RepliesAreListed'
  BY <1>1, <1>2 DEF RegisterInv, ReadingsHold, RepliesAreListed, Edited
<1>8. UnderWay("reply")' \subseteq UnderWay("reply") \ {e}
  BY <1>2, StillUnderWay DEF UnderWay
<1> SUFFICES ASSUME "reply" \notin blended' PROVE OneEditAtATime' /\ ReplyIsTold'
  BY <1>6, <1>7 DEF RegisterInv, OneEditAtATime, ReplyIsTold
<1>9. trail' = Append(trail, new) /\ "reply" \notin blended
  BY <1>1
<1>10. e \in UnderWay("reply")
  BY <1>1, <1>2 DEF UnderWay
<1>11. UnderWay("reply")' = {}
  BY <1>8, <1>9, <1>10 DEF RegisterInv, OneEditAtATime
<1>12. /\ Len(trail) \in Nat /\ Len(trail') = Len(trail) + 1
       /\ \A i \in 1 .. Len(trail) : trail'[i] = trail[i]
       /\ trail'[Len(trail) + 1] = new
  BY <1>3, <1>4, <1>9, AppendProperties, LenProperties
<1>13. /\ new.before = LastTold /\ new.after = register["reply"].holds
       /\ \A i \in 1 .. Len(trail) : trail[i].before = IF i = 1 THEN Default ELSE trail[i-1].after
  BY <1>1, <1>3, <1>9, <1>10 DEF RegisterInv, ReplyIsTold
<1>14. LastTold' = register["reply"].holds
  <2>1. trail' # <<>>
    BY <1>12, <1>5, EmptySeq
  <2> QED BY <1>12, <1>13, <2>1 DEF LastTold
<1>15. \A i \in 1 .. Len(trail') : trail'[i].before = IF i = 1 THEN Default ELSE trail'[i-1].after
  <2> SUFFICES ASSUME NEW i \in 1 .. Len(trail')
               PROVE  trail'[i].before = IF i = 1 THEN Default ELSE trail'[i-1].after
    OBVIOUS
  <2>1. CASE i \in 1 .. Len(trail)
    <3>1. i # 1 => i - 1 \in 1 .. Len(trail)
      BY <1>12, <2>1
    <3> QED BY <1>12, <1>13, <2>1, <3>1
  <2>2. CASE i = Len(trail) + 1
    <3>1. CASE Len(trail) = 0
      <4>1. trail = <<>>
        BY <1>4, <3>1, EmptySeq
      <4> QED BY <1>12, <1>13, <2>2, <3>1, <4>1 DEF LastTold
    <3>2. CASE Len(trail) # 0
      <4>1. trail # <<>> /\ i # 1 /\ i - 1 = Len(trail) /\ Len(trail) \in 1 .. Len(trail)
        BY <1>4, <1>12, <2>2, <3>2, EmptySeq
      <4> QED BY <1>12, <1>13, <2>2, <4>1 DEF LastTold
    <3> QED BY <3>1, <3>2
  <2> QED BY <1>12, <2>1, <2>2
<1> QED BY <1>1, <1>11, <1>14, <1>15 DEF OneEditAtATime, ReplyIsTold

LEMMA EditingKeeps ==
    ASSUME RegisterInv, NEW e \in Edits,
           \/ ListReplies(e) \/ ReadRow(e) \/ EditFails(e)
           \/ SaveReply(e) \/ UpdateRow(e) \/ InsertRow(e)
    PROVE  RegisterInv'
<1>0. /\ RegisterTypeOK /\ RepliesAreListed /\ ReadingsHold
      /\ editing[e] \in EditRecords /\ register \in [Rows -> RegisterRows]
  BY DEF RegisterInv, RegisterTypeOK, EditRecords, RegisterRows
<1> DEFINE g == editing[e].row
<1>1. g \in Rows /\ editing[e].version \in Nat /\ editing[e].version + 1 \in Nat /\ register[g] \in RegisterRows
  BY <1>0 DEF EditRecords
<1>2. CASE ListReplies(e)
  <2>1. register["reply"].holds \in Edits \union {Default}
    BY <1>0 DEF Rows, RegisterRows
  <2>2. PICK s \in {"read", "write"}, p \in Edits \union {Default} :
            /\ editing' = [editing EXCEPT ![e].step = s, ![e].previous = p]
            /\ p = register["reply"].holds /\ (s = "write" => editing[e].kind # "save")
    BY <1>2, <2>1 DEF ListReplies
  <2>3. editing[e].step = "list" /\ UNCHANGED <<register, trail, withdrawn, blended>>
    BY <1>2 DEF ListReplies, Editing
  <2> DEFINE r == editing[e]
             new == [r EXCEPT !.step = s, !.previous = p]
  <2>4. r \in EditRecords /\ editing \in [Edits -> EditRecords] /\ editing' = [editing EXCEPT ![e] = new]
    BY <1>0, <2>2 DEF RegisterTypeOK, EditRecords
  <2> HIDE DEF r
  <2>5. /\ new \in EditRecords /\ new.step = s /\ new.row = r.row /\ new.kind = r.kind
        /\ new.previous = p
    BY <2>4 DEF EditRecords
  <2> HIDE DEF new
  <2>6. /\ editing' \in [Edits -> EditRecords] /\ editing'[e] = new
        /\ \A f \in Edits : f # e => editing'[f] = editing[f]
    BY ONLY <2>4, <2>5, OnePlaceChanges, e \in Edits
  <2>7. Edited(e, s) /\ editing'[e].previous = p
    BY <2>5, <2>6 DEF Edited, r
  <2> QED BY <2>2, <2>3, <2>7, QuietEditKeeps
<1>3. CASE ReadRow(e)
  <2>1. PICK s \in {"refused", "write"} :
            editing' = [editing EXCEPT ![e].step = s, ![e].found = register[g].stored, ![e].version = register[g].version]
    BY <1>3 DEF ReadRow
  <2>2. /\ editing[e].step = "read" /\ UNCHANGED <<register, trail, withdrawn, blended>>
    BY <1>3 DEF ReadRow, Editing
  <2>3. register[g].stored \in BOOLEAN /\ register[g].version \in Nat
    BY <1>1 DEF RegisterRows
  <2>4. /\ Edited(e, s) /\ editing'[e].found = register[g].stored /\ editing'[e].previous = editing[e].previous
    <3> DEFINE b == register[g].stored
               n == register[g].version
    <3>1. /\ editing' = [editing EXCEPT ![e].step = s, ![e].found = b, ![e].version = n]
          /\ b \in BOOLEAN /\ n \in Nat /\ editing[e].previous \in Edits \union {Default}
      BY <1>0, <2>1, <2>3 DEF EditRecords
    <3> HIDE DEF b, n
    <3>2. Edited(e, s) /\ editing'[e].found = b /\ editing'[e].previous = editing[e].previous
      BY <1>0, <3>1, EditReads
    <3> QED BY <3>2 DEF b
  <2> QED BY <2>1, <2>2, <2>4, QuietEditKeeps
<1>4. CASE EditFails(e)
  <2>1. /\ editing[e].step \in {"list", "read", "write"} /\ UNCHANGED <<register, trail, withdrawn, blended>>
        /\ editing' = [editing EXCEPT ![e].step = "failed"]
    BY <1>4 DEF EditFails, Turns
  <2>2. Edited(e, "failed") /\ editing'[e].previous = editing[e].previous
    BY <1>0, <1>1, <2>1, EditMoves
  <2> QED BY <2>1, <2>2, QuietEditKeeps
<1>5. CASE SaveReply(e)
  <2> DEFINE new == [stored |-> TRUE, version |-> editing[e].version + 1, holds |-> e]
  <2>1. /\ editing[e].step = "write" /\ g = "reply" /\ editing[e].kind = "save"
        /\ register' = [register EXCEPT ![g] = new] /\ UNCHANGED <<trail, withdrawn, blended>>
        /\ editing' = [editing EXCEPT ![e].step = "audit"]
    BY <1>5 DEF SaveReply, Editing, Ends, Turns, Store
  <2>2. new \in RegisterRows /\ new.stored /\ new.holds = e
    BY <1>1 DEF RegisterRows
  <2> HIDE DEF new
  <2>3. Edited(e, "audit") /\ editing'[e].previous = editing[e].previous
    BY <1>0, <1>1, <2>1, EditMoves
  <2>4. /\ register' \in [Rows -> RegisterRows] /\ register'[g] = new
        /\ \A h \in Rows : h # g => register'[h] = register[h]
    BY <1>0, <1>1, <2>1, <2>2, WritingKeepsRow
  <2> QED BY <1>1, <2>1, <2>2, <2>3, <2>4, SavingKeeps
<1>6. CASE UpdateRow(e)
  <2> DEFINE new == [stored |-> TRUE, version |-> editing[e].version + 1, holds |-> e]
  <2>1. /\ editing[e].step = "write" /\ g # "reply" /\ editing[e].kind = "save" /\ editing[e].found
        /\ IF register[g].stored THEN register' = [register EXCEPT ![g] = new] ELSE UNCHANGED register
        /\ UNCHANGED <<trail, withdrawn, blended>>
        /\ editing' = [editing EXCEPT ![e].step = "done"]
    BY <1>6 DEF UpdateRow, Editing, Ends, Turns, Store
  <2>2. new \in RegisterRows /\ new.stored
    BY <1>1 DEF RegisterRows
  <2> HIDE DEF new
  <2>3. Edited(e, "done") /\ editing'[e].previous = editing[e].previous
    BY <1>0, <1>1, <2>1, EditMoves
  <2>4. CASE register[g].stored
    <3>1. /\ register' \in [Rows -> RegisterRows] /\ register'[g] = new
          /\ \A h \in Rows : h # g => register'[h] = register[h]
      BY <1>0, <1>1, <2>1, <2>2, <2>4, WritingKeepsRow
    <3> QED BY <1>1, <2>1, <2>2, <2>3, <3>1, SavingKeeps
  <2>5. CASE ~register[g].stored
    <3>1. e \in withdrawn
      BY <1>0, <2>1, <2>5 DEF ReadingsHold
    <3> QED BY <1>0, <1>1, <2>1, <2>3, <2>5, <3>1, SavingKeeps
  <2> QED BY <2>4, <2>5
<1>7. CASE InsertRow(e)
  <2> DEFINE new == [stored |-> TRUE, version |-> 1, holds |-> e]
  <2>1. /\ editing[e].step = "write" /\ g # "reply" /\ editing[e].kind = "save" /\ ~editing[e].found
        /\ UNCHANGED <<trail, withdrawn, blended>>
    BY <1>7 DEF InsertRow, Editing
  <2>2. CASE register[g].stored
    <3>1. CASE g = "document"
      <4>1. editing' = [editing EXCEPT ![e].step = "done"] /\ UNCHANGED register
        BY <1>7, <2>2, <3>1 DEF InsertRow, Turns
      <4>2. Edited(e, "done") /\ editing'[e].previous = editing[e].previous
        BY <1>0, <1>1, <4>1, EditMoves
      <4> QED BY <1>0, <1>1, <2>1, <2>2, <3>1, <4>1, <4>2, SavingKeeps
    <3>2. CASE g # "document"
      <4>1. editing' = [editing EXCEPT ![e].step = "failed"] /\ UNCHANGED register
        BY <1>7, <2>2, <3>2 DEF InsertRow, Turns
      <4>2. Edited(e, "failed") /\ editing'[e].previous = editing[e].previous
        BY <1>0, <1>1, <4>1, EditMoves
      <4> QED BY <2>1, <4>1, <4>2, QuietEditKeeps
    <3> QED BY <3>1, <3>2
  <2>3. CASE ~register[g].stored
    <3>1. register' = [register EXCEPT ![g] = new] /\ editing' = [editing EXCEPT ![e].step = "done"]
      BY <1>7, <2>1, <2>3 DEF InsertRow, Ends, Turns, Store
    <3>2. new \in RegisterRows /\ new.stored
      BY DEF RegisterRows
    <3> HIDE DEF new
    <3>3. Edited(e, "done") /\ editing'[e].previous = editing[e].previous
      BY <1>0, <1>1, <3>1, EditMoves
    <3>4. /\ register' \in [Rows -> RegisterRows] /\ register'[g] = new
          /\ \A h \in Rows : h # g => register'[h] = register[h]
      BY <1>0, <1>1, <3>1, <3>2, WritingKeepsRow
    <3> QED BY <1>1, <2>1, <3>2, <3>3, <3>4, SavingKeeps
  <2> QED BY <2>2, <2>3
<1> QED BY <1>2, <1>3, <1>4, <1>5, <1>6, <1>7

LEMMA RegisterStepKeeps == ASSUME RegisterInv, [RegisterNext]_registerVars PROVE RegisterInv'
<1>1. CASE UNCHANGED registerVars
  BY <1>1 DEF registerVars, RegisterInv, RegisterTypeOK, ReadingsHold, RepliesAreListed, OneEditAtATime, ReplyIsTold,
              LastTold, UnderWay, Puts
<1>2. ASSUME NEW e \in Edits, NEW g \in Rows, NEW kind \in EditKinds, BeginEdit(e, g, kind)
      PROVE  RegisterInv'
  BY <1>2, BeginningKeepsRegisters
<1>3. ASSUME NEW e \in Edits, \/ ListReplies(e) \/ ReadRow(e) \/ SaveReply(e) \/ UpdateRow(e)
                              \/ InsertRow(e) \/ RemoveRow(e) \/ AuditReply(e) \/ EditFails(e)
      PROVE  RegisterInv'
  BY <1>3, EditingKeeps, RemovingKeeps, AuditingKeeps
<1> QED BY <1>1, <1>2, <1>3 DEF RegisterNext

\* However many edits overlap: one answered as saved left its row stored unless it was
\* removed since, and the audit of the replies is a chain that ends with what they hold.
THEOREM EditsTellTrue == RegisterSpec => []EditsAreTold
<1>1. RegisterInv => EditsAreTold
  BY DEF RegisterInv, ReadingsHold, ReplyIsTold, EditsAreTold, SavedIsStored, TrailIsAChain, LastTold
<1> QED BY <1>1, RegistersInitially, RegisterStepKeeps, PTL DEF RegisterSpec

-----------------------------------------------------------------------------
(* The figures.                                                            *)

\* The points of one sign are those of the largest step reached, or none.
LEMMA LargestOfThree ==
    ASSUME NEW a \in Nat, NEW b \in Nat, NEW c \in Nat, a <= b, b <= c, NEW S,
           \A x \in S : x = 0 \/ x = a \/ x = b \/ x = c, 0 \in S
    PROVE  Max(S) \in {0, a, b, c}
<1>1. \E m \in S : \A x \in S : m >= x
  <2>1. CASE c \in S
    BY <2>1
  <2>2. CASE c \notin S /\ b \in S
    BY <2>2
  <2>3. CASE c \notin S /\ b \notin S /\ a \in S
    BY <2>3
  <2>4. CASE c \notin S /\ b \notin S /\ a \notin S
    BY <2>4
  <2> QED BY <2>1, <2>2, <2>3, <2>4
<1>2. Max(S) \in S
  BY <1>1 DEF Max
<1> QED BY <1>2

LEMMA StepsAreBounded ==
    ASSUME NEW n, NEW steps, NEW a \in Nat, NEW b \in Nat, NEW c \in Nat, a <= b, b <= c,
           \A step \in steps : step[2] = a \/ step[2] = b \/ step[2] = c
    PROVE  Steps(n, steps) \in {0, a, b, c}
<1> DEFINE S == {0} \cup {step[2] : step \in {s \in steps : n >= s[1]}}
<1>1. (\A x \in S : x = 0 \/ x = a \/ x = b \/ x = c) /\ 0 \in S /\ Steps(n, steps) = Max(S)
  BY DEF Steps
<1> HIDE DEF S
<1> QED BY <1>1, LargestOfThree

LEMMA ScoreIsBounded == scoreChurnRisk \in 0 .. 100
<1>1. TicketPoints \in Nat /\ OverduePoints \in Nat
  <2> DEFINE n == Len(Recent)
             m == Count(Overdue, Open)
             tickets3 == {<<1, 10>>, <<3, 25>>, <<5, 40>>}
             overdue3 == {<<1, 15>>, <<2, 25>>, <<3, 35>>}
  <2>0. /\ \A step \in tickets3 : step[2] = 10 \/ step[2] = 25 \/ step[2] = 40
        /\ \A step \in overdue3 : step[2] = 15 \/ step[2] = 25 \/ step[2] = 35
    OBVIOUS
  <2>1. TicketPoints = Steps(n, tickets3) /\ OverduePoints = Steps(m, overdue3)
    BY DEF TicketPoints, OverduePoints
  <2> HIDE DEF n, m, tickets3, overdue3
  <2>2. TicketPoints \in {0, 10, 25, 40}
    BY <2>0, <2>1, StepsAreBounded
  <2>3. OverduePoints \in {0, 15, 25, 35}
    BY <2>0, <2>1, StepsAreBounded
  <2> QED BY <2>2, <2>3
<1>2. RecurrencePoints \in Nat /\ NewPoints \in Nat
  BY DEF RecurrencePoints, NewPoints
<1>3. DelayPoints \in Nat
  BY DEF DelayPoints
<1> DEFINE sum == TicketPoints + RecurrencePoints + OverduePoints + DelayPoints + NewPoints
<1>4. sum \in Nat
  BY <1>1, <1>2, <1>3
<1>5. scoreChurnRisk = Min({100, sum})
  BY DEF scoreChurnRisk
<1> HIDE DEF sum
<1>6. \E m \in {100, sum} : \A x \in {100, sum} : m =< x
  BY <1>4
<1>7. Min({100, sum}) \in {100, sum} /\ \A x \in {100, sum} : Min({100, sum}) =< x
  BY <1>6 DEF Min
<1> QED BY <1>4, <1>5, <1>7

FigureTypes ==
    /\ today \in Nat \ {0} /\ goal \in Nat /\ events \in Nat /\ down \subseteq Sources
    /\ leads \in Seq([stage : LEAD_STAGES, createdAt : Nat \ {0}]) /\ talks \in Seq(Outcomes)

LEMMA FiguresStepKeeps == ASSUME FigureTypes, [FiguresNext]_figureVars PROVE FigureTypes'
<1> DEFINE LeadRow == [stage : LEAD_STAGES, createdAt : Nat \ {0}]
<1>0. /\ today \in Nat \ {0} /\ goal \in Nat /\ events \in Nat /\ down \subseteq Sources
      /\ leads \in Seq(LeadRow) /\ talks \in Seq(Outcomes)
  BY DEF FigureTypes
<1>1. CASE UNCHANGED figureVars
  BY <1>1 DEF FigureTypes, figureVars, erp, base
<1>2. ASSUME Occurs PROVE events' \in Nat
  BY <1>0, <1>2 DEF Occurs
<1>3. CASE DaysPass
  <2>1. PICK n \in Jumps : today' = today + n
    BY <1>3 DEF DaysPass
  <2>2. today' \in Nat \ {0}
    BY <1>0, <2>1, JumpsAssumption
  <2> QED BY <1>0, <1>2, <1>3, <2>2 DEF DaysPass, FigureTypes, erp, base
<1>4. CASE OpensTicket \/ IsIssued \/ IsSettled \/ Sells \/ IsCancelled
  <2>1. Occurs /\ UNCHANGED <<today, leads, goal, talks, down>>
    BY <1>4 DEF OpensTicket, IsIssued, IsSettled, Sells, IsCancelled, base
  <2> QED BY <1>0, <1>2, <2>1 DEF FigureTypes
<1>5. CASE SetsGoal
  BY <1>0, <1>2, <1>5 DEF SetsGoal, FigureTypes
<1>6. CASE LeadArrives
  <2>1. [stage |-> "novo", createdAt |-> today] \in LeadRow
    BY <1>0 DEF LEAD_STAGES
  <2>2. leads' \in Seq(LeadRow)
    BY <1>0, <1>6, <2>1 DEF LeadArrives
  <2> QED BY <1>0, <1>2, <1>6, <2>2 DEF LeadArrives, FigureTypes
<1>7. CASE LeadMoves
  <2>1. PICK i \in DOMAIN leads : \E stage \in LEAD_STAGES : leads' = [leads EXCEPT ![i].stage = stage]
    BY <1>7 DEF LeadMoves
  <2>2. PICK stage \in LEAD_STAGES : leads' = [leads EXCEPT ![i].stage = stage]
    BY <2>1
  <2> DEFINE row == [leads[i] EXCEPT !.stage = stage]
  <2>3. leads[i] \in LeadRow /\ leads' = [leads EXCEPT ![i] = row]
    <3>1. leads[i] \in LeadRow
      <4> HIDE DEF LeadRow
      <4> QED BY <1>0, <2>1
    <3> QED BY <2>2, <3>1
  <2>4. row \in LeadRow
    BY <2>3
  <2> HIDE DEF row
  <2>5. leads' \in Seq(LeadRow)
    BY <1>0, <2>3, <2>4
  <2> QED BY <1>0, <1>2, <1>7, <2>5 DEF LeadMoves, FigureTypes
<1>8. CASE TalkEnds
  <2>1. talks' \in Seq(Outcomes)
    BY <1>0, <1>8 DEF TalkEnds
  <2> QED BY <1>0, <1>2, <1>8, <2>1 DEF TalkEnds, FigureTypes
<1>9. CASE IncidentTurns
  BY <1>0, <1>2, <1>9 DEF IncidentTurns, FigureTypes
<1>10. CASE SourceTurns
  <2>1. down' \subseteq Sources
    BY <1>0, <1>10 DEF SourceTurns, SymDiff
  <2> QED BY <1>0, <1>2, <1>10, <2>1 DEF SourceTurns, FigureTypes, base
<1> QED BY <1>1, <1>3, <1>4, <1>5, <1>6, <1>7, <1>8, <1>9, <1>10 DEF FiguresNext

\* However long it goes on: the risk of losing a customer stays a number from 0 to 100,
\* and the figures are computed from what they expect.
THEOREM FiguresAreTyped == FiguresSpec => []FiguresTypeOK
<1>1. FiguresInit => FigureTypes
  BY DEF FiguresInit, FigureTypes
<1>2. FigureTypes => FiguresTypeOK
  BY ScoreIsBounded DEF FigureTypes, FiguresTypeOK
<1> QED BY <1>1, <1>2, FiguresStepKeeps, PTL DEF FiguresSpec

-----------------------------------------------------------------------------
(* The promises.                                                           *)

\* A row is inserted where there is none.
InsertsAreFirst == \A p \in Promised : creating[p] # {} => promise[p].state = "none"

\* A review that asks has an answer, or none that it could get, for every promise it
\* asked about; one that writes has its verdicts from there.
AsksSoundly(v) ==
    /\ review[v].asked \subseteq review[v].listed
    /\ review[v].listed \ (review[v].asked \union review[v].open) \subseteq settled \union unread

WritesSoundly(v) ==
    /\ review[v].fulfilled \union review[v].broken \subseteq review[v].listed
    /\ review[v].fulfilled \intersect review[v].broken = {}
    /\ review[v].fulfilled \subseteq settled \union unread
    /\ review[v].broken \subseteq sawOpen
    /\ \A p \in review[v].broken : promise[p].until < calendar

\* The promises a review may still write.
VerdictsInHand(v) == IF review[v].step = "ask" THEN review[v].listed
             ELSE IF review[v].step = "write" THEN review[v].fulfilled \union review[v].broken
             ELSE {}

ReviewsAreSound ==
    \A v \in Reviews :
        /\ \A p \in review[v].listed : promise[p].state # "none"
        /\ review[v].step = "ask" => AsksSoundly(v)
        /\ review[v].step = "write" => WritesSoundly(v)

\* What a review has in hand is not judged yet, or was while two had it.
HandsAreFresh ==
    \A v \in Reviews : \A p \in VerdictsInHand(v) : promise[p].state = "pending" \/ p \in contested

PromiseInv == PromiseTypeOK /\ InsertsAreFirst /\ ReviewsAreSound /\ HandsAreFresh /\ VerdictsHaveReasons

\* A step keeps what was judged.
JudgedStays ==
    \A p \in Promised :
        promise[p].state \in {"fulfilled", "broken"} => promise'[p] = promise[p] \/ p \in contested'

USE PromiseAssumption

\* What a review keeps is a record of sets of promises.
ReviewRecords == [step : {"idle", "ask", "write", "done"},
                  listed : SUBSET Promised, asked : SUBSET Promised,
                  open : SUBSET Promised, paid : SUBSET Promised,
                  fulfilled : SUBSET Promised, broken : SUBSET Promised]

LEMMA ReviewsChange ==
    ASSUME NEW r \in ReviewRecords, NEW S \in SUBSET Promised, NEW T \in SUBSET Promised
    PROVE  /\ [r EXCEPT !.asked = S] \in ReviewRecords
           /\ [r EXCEPT !.asked = S, !.paid = T] \in ReviewRecords
           /\ [r EXCEPT !.asked = S, !.open = T] \in ReviewRecords
           /\ [r EXCEPT !.fulfilled = S] \in ReviewRecords
           /\ [r EXCEPT !.broken = S] \in ReviewRecords
           /\ [r EXCEPT !.step = "write", !.fulfilled = S, !.broken = T] \in ReviewRecords
  BY DEF ReviewRecords

LEMMA PromisesInitially == PromiseInit => PromiseInv
  BY DEF PromiseInit, PromiseInv, PromiseTypeOK, NewReview, States, Days, InsertsAreFirst, ReviewsAreSound,
         HandsAreFresh, VerdictsInHand, VerdictsHaveReasons

LEMMA DayKeepsVerdicts == ASSUME PromiseInv, DayPasses PROVE PromiseInv' /\ JudgedStays
<1>1. PromiseTypeOK'
  BY DEF PromiseInv, PromiseTypeOK, DayPasses, Days
<1>2. /\ UNCHANGED <<promise, settled, creating, review, sawOpen, unread, contested>>
      /\ calendar' = calendar + 1 /\ calendar \in Nat
      /\ \A p \in Promised : promise[p].until \in Nat
  BY DEF PromiseInv, PromiseTypeOK, DayPasses, Days
<1>3. InsertsAreFirst' /\ HandsAreFresh' /\ JudgedStays
  BY <1>2 DEF PromiseInv, InsertsAreFirst, HandsAreFresh, VerdictsInHand, JudgedStays
<1>4. ReviewsAreSound'
  <2> SUFFICES ASSUME NEW v \in Reviews
               PROVE /\ \A p \in review[v].listed : promise[p].state # "none"
                     /\ review[v].step = "ask" => AsksSoundly(v)'
                     /\ review[v].step = "write" => WritesSoundly(v)'
    BY <1>2 DEF ReviewsAreSound
  <2>1. review[v].broken \subseteq Promised
    BY DEF PromiseInv, PromiseTypeOK
  <2> QED
    BY <1>2, <2>1 DEF PromiseInv, ReviewsAreSound, AsksSoundly, WritesSoundly
<1>5. VerdictsHaveReasons'
  BY <1>2 DEF PromiseInv, VerdictsHaveReasons
<1> QED BY <1>1, <1>3, <1>4, <1>5 DEF PromiseInv

LEMMA SettlingKeeps == ASSUME PromiseInv, NEW q \in Promised, Settle(q) PROVE PromiseInv' /\ JudgedStays
<1>1. PromiseTypeOK'
  BY DEF PromiseInv, PromiseTypeOK, Settle
<1>2. /\ UNCHANGED <<calendar, promise, creating, review, sawOpen, unread, contested>>
      /\ settled \subseteq settled'
  BY DEF Settle
<1>3. InsertsAreFirst' /\ HandsAreFresh' /\ JudgedStays /\ VerdictsHaveReasons'
  BY <1>2 DEF PromiseInv, InsertsAreFirst, HandsAreFresh, VerdictsInHand, JudgedStays, VerdictsHaveReasons
<1>4. ReviewsAreSound'
  BY <1>2 DEF PromiseInv, ReviewsAreSound, AsksSoundly, WritesSoundly
<1> QED BY <1>1, <1>3, <1>4 DEF PromiseInv

LEMMA CheckingKeepsVerdicts ==
    ASSUME PromiseInv, NEW q \in Promised, NEW d \in Days, PromiseChecks(q, d) PROVE PromiseInv' /\ JudgedStays
<1>1. PromiseTypeOK'
  BY DEF PromiseInv, PromiseTypeOK, PromiseChecks
<1>2. /\ UNCHANGED <<calendar, promise, settled, review, sawOpen, unread, contested>>
      /\ promise[q].state = "none"
      /\ \A p \in Promised : p # q => creating'[p] = creating[p]
  BY DEF PromiseChecks, PromiseInv, PromiseTypeOK
<1>3. InsertsAreFirst' /\ HandsAreFresh' /\ JudgedStays /\ VerdictsHaveReasons'
  BY <1>2 DEF PromiseInv, InsertsAreFirst, HandsAreFresh, VerdictsInHand, JudgedStays, VerdictsHaveReasons
<1>4. ReviewsAreSound'
  BY <1>2 DEF PromiseInv, ReviewsAreSound, AsksSoundly, WritesSoundly
<1> QED BY <1>1, <1>3, <1>4 DEF PromiseInv

LEMMA PromisingKeeps ==
    ASSUME PromiseInv, NEW q \in Promised, NEW d \in Days, PromiseInserts(q, d) PROVE PromiseInv' /\ JudgedStays
<1>1. PromiseTypeOK'
  BY DEF PromiseInv, PromiseTypeOK, PromiseInserts, States
<1>2. /\ UNCHANGED <<calendar, settled, review, sawOpen, unread, contested>>
      /\ promise[q].state = "none" /\ promise'[q].state = "pending" /\ creating'[q] = {}
      /\ \A p \in Promised : p # q => promise'[p] = promise[p] /\ creating'[p] = creating[p]
      /\ \A v \in Reviews : review[v].listed \subseteq Promised
  BY DEF PromiseInserts, PromiseInv, PromiseTypeOK, InsertsAreFirst
<1>3. InsertsAreFirst' /\ JudgedStays /\ VerdictsHaveReasons'
  BY <1>2 DEF PromiseInv, InsertsAreFirst, JudgedStays, VerdictsHaveReasons
<1>4. \A v \in Reviews : q \notin review[v].listed
  BY <1>2 DEF PromiseInv, ReviewsAreSound
<1>5. ReviewsAreSound'
  BY <1>2, <1>4 DEF PromiseInv, ReviewsAreSound, AsksSoundly, WritesSoundly
<1>6. HandsAreFresh'
  BY <1>2, <1>4 DEF PromiseInv, HandsAreFresh, VerdictsInHand, ReviewsAreSound, WritesSoundly
<1> QED BY <1>1, <1>3, <1>5, <1>6 DEF PromiseInv

\* The steps of a review other than its writes.
LEMMA ListingKeepsVerdicts == ASSUME PromiseInv, NEW w \in Reviews, ListPending(w) PROVE PromiseInv' /\ JudgedStays
<1>1. PromiseTypeOK'
  BY DEF PromiseInv, PromiseTypeOK, ListPending, NewReview
<1>2. /\ UNCHANGED <<calendar, promise, settled, creating, sawOpen, unread, contested>>
      /\ \A v \in Reviews : v # w => review'[v] = review[v]
      /\ review'[w].step = "ask"
      /\ review'[w].listed = {p \in Promised : promise[p].state = "pending"}
      /\ review'[w].asked = review'[w].listed
  BY DEF ListPending, PromiseInv, PromiseTypeOK, NewReview
<1>3. InsertsAreFirst' /\ JudgedStays /\ VerdictsHaveReasons'
  BY <1>2 DEF PromiseInv, InsertsAreFirst, JudgedStays, VerdictsHaveReasons
<1>4. ReviewsAreSound'
  BY <1>2 DEF PromiseInv, ReviewsAreSound, AsksSoundly, WritesSoundly
<1>5. HandsAreFresh'
  BY <1>2 DEF PromiseInv, HandsAreFresh, VerdictsInHand
<1> QED BY <1>1, <1>3, <1>4, <1>5 DEF PromiseInv

LEMMA AskingKeepsVerdicts ==
    ASSUME PromiseInv, NEW w \in Reviews, NEW q \in Promised, AskErp(w, q) PROVE PromiseInv' /\ JudgedStays
<1>1. PromiseTypeOK'
  <2>1. /\ review[w].asked \ {q} \in SUBSET Promised /\ review[w].paid \union {q} \in SUBSET Promised
        /\ review[w].open \union {q} \in SUBSET Promised /\ unread' \subseteq Promised
    BY DEF PromiseInv, PromiseTypeOK, AskErp
  <2>2. review' \in [Reviews -> ReviewRecords]
    <3>1. review \in [Reviews -> ReviewRecords]
      BY DEF PromiseInv, PromiseTypeOK, ReviewRecords
    <3> DEFINE silent == [review[w] EXCEPT !.asked = review[w].asked \ {q}]
               paid   == [review[w] EXCEPT !.asked = review[w].asked \ {q}, !.paid = review[w].paid \union {q}]
               open   == [review[w] EXCEPT !.asked = review[w].asked \ {q}, !.open = review[w].open \union {q}]
    <3>2. \/ review' = [review EXCEPT ![w] = silent]
          \/ review' = [review EXCEPT ![w] = paid]
          \/ review' = [review EXCEPT ![w] = open]
      BY <3>1 DEF AskErp, ReviewRecords
    <3>3. silent \in ReviewRecords /\ paid \in ReviewRecords /\ open \in ReviewRecords
      BY <2>1, <3>1, ReviewsChange
    <3> HIDE DEF silent, paid, open
    <3> QED BY <3>1, <3>2, <3>3
  <2> QED BY <2>1, <2>2 DEF PromiseInv, PromiseTypeOK, AskErp, ReviewRecords
<1>2. /\ UNCHANGED <<calendar, promise, settled, creating, sawOpen, contested>>
      /\ \A v \in Reviews : v # w => review'[v] = review[v]
      /\ review[w].step = "ask" /\ review'[w].step = "ask"
      /\ review'[w].listed = review[w].listed
      /\ review'[w].asked = review[w].asked \ {q}
      /\ unread \subseteq unread' /\ review[w].open \subseteq review'[w].open
      /\ q \in settled \union unread' \union review'[w].open
  BY DEF AskErp, PromiseInv, PromiseTypeOK
<1>3. InsertsAreFirst' /\ JudgedStays /\ VerdictsHaveReasons'
  BY <1>2 DEF PromiseInv, InsertsAreFirst, JudgedStays, VerdictsHaveReasons
<1>4. ReviewsAreSound'
  BY <1>2 DEF PromiseInv, ReviewsAreSound, AsksSoundly, WritesSoundly
<1>5. HandsAreFresh'
  BY <1>2 DEF PromiseInv, HandsAreFresh, VerdictsInHand
<1> QED BY <1>1, <1>3, <1>4, <1>5 DEF PromiseInv

LEMMA JudgingKeeps == ASSUME PromiseInv, NEW w \in Reviews, Judge(w) PROVE PromiseInv' /\ JudgedStays
<1> DEFINE kept == {p \in review[w].listed : Verdict(w, p) = "fulfilled"}
           lost == {p \in review[w].listed : Verdict(w, p) = "broken"}
<1>1. /\ UNCHANGED <<calendar, promise, settled, creating, unread, contested>>
      /\ sawOpen' = sawOpen \union lost
      /\ \A v \in Reviews : v # w => review'[v] = review[v]
      /\ review[w].step = "ask" /\ review[w].asked = {}
      /\ review'[w] = [review[w] EXCEPT !.step = "write", !.fulfilled = kept, !.broken = lost]
  BY DEF Judge, PromiseInv, PromiseTypeOK
<1>2. review[w].listed \subseteq Promised
  BY DEF PromiseInv, PromiseTypeOK
<1>3. /\ kept \subseteq settled \union unread
      /\ \A p \in lost : promise[p].until < calendar
      /\ kept \intersect lost = {}
  BY <1>1 DEF PromiseInv, ReviewsAreSound, AsksSoundly, Verdict
<1> HIDE DEF kept, lost
<1>4. kept \subseteq review[w].listed /\ lost \subseteq review[w].listed
  BY DEF kept, lost
<1>5. /\ review'[w].step = "write" /\ review'[w].listed = review[w].listed
      /\ review'[w].fulfilled = kept /\ review'[w].broken = lost
  BY <1>1 DEF PromiseInv, PromiseTypeOK
<1>6. PromiseTypeOK'
  <2>1. kept \in SUBSET Promised /\ lost \in SUBSET Promised
    BY <1>2, <1>4
  <2>2. review' = [review EXCEPT ![w] = [review[w] EXCEPT !.step = "write", !.fulfilled = kept, !.broken = lost]]
    BY DEF Judge, PromiseInv, PromiseTypeOK, kept, lost
  <2>3. review' \in [Reviews -> ReviewRecords]
    <3>1. review \in [Reviews -> ReviewRecords]
      BY DEF PromiseInv, PromiseTypeOK, ReviewRecords
    <3>2. [review[w] EXCEPT !.step = "write", !.fulfilled = kept, !.broken = lost] \in ReviewRecords
      BY <2>1, <3>1, ReviewsChange
    <3> QED BY <2>2, <3>1, <3>2
  <2> QED BY <1>1, <2>1, <2>3 DEF PromiseInv, PromiseTypeOK, ReviewRecords
<1>7. InsertsAreFirst' /\ JudgedStays /\ VerdictsHaveReasons'
  BY <1>1 DEF PromiseInv, InsertsAreFirst, JudgedStays, VerdictsHaveReasons
<1>8. ReviewsAreSound'
  <2> SUFFICES ASSUME NEW v \in Reviews
               PROVE /\ \A p \in review'[v].listed : promise'[p].state # "none"
                     /\ review'[v].step = "ask" => AsksSoundly(v)'
                     /\ review'[v].step = "write" => WritesSoundly(v)'
    BY DEF ReviewsAreSound
  <2>1. CASE v = w
    BY <1>1, <1>3, <1>4, <1>5, <2>1 DEF PromiseInv, ReviewsAreSound, WritesSoundly
  <2>2. CASE v # w
    BY <1>1, <2>2 DEF PromiseInv, ReviewsAreSound, AsksSoundly, WritesSoundly
  <2> QED BY <2>1, <2>2
<1>9. HandsAreFresh'
  <2> SUFFICES ASSUME NEW v \in Reviews, NEW p \in VerdictsInHand(v)'
               PROVE promise[p].state = "pending" \/ p \in contested
    BY <1>1 DEF HandsAreFresh
  <2>1. CASE v = w
    BY <1>1, <1>4, <1>5, <2>1 DEF PromiseInv, HandsAreFresh, VerdictsInHand
  <2>2. CASE v # w
    BY <1>1, <2>2 DEF PromiseInv, HandsAreFresh, VerdictsInHand
  <2> QED BY <2>1, <2>2
<1> QED BY <1>6, <1>7, <1>8, <1>9 DEF PromiseInv

LEMMA EndingKeepsVerdicts ==
    ASSUME PromiseInv, NEW w \in Reviews, ReviewEnds(w) \/ ReviewDies(w) PROVE PromiseInv' /\ JudgedStays
<1>1. PromiseTypeOK'
  <2>1. /\ UNCHANGED <<calendar, promise, settled, creating, sawOpen, unread, contested>>
        /\ review' = [review EXCEPT ![w] = [NewReview EXCEPT !.step = "done"]]
    BY DEF ReviewEnds, ReviewDies
  <2>2. [NewReview EXCEPT !.step = "done"] \in ReviewRecords
    BY DEF NewReview, ReviewRecords
  <2> QED BY <2>1, <2>2 DEF PromiseInv, PromiseTypeOK, ReviewRecords
<1>2. /\ UNCHANGED <<calendar, promise, settled, creating, sawOpen, unread, contested>>
      /\ \A v \in Reviews : v # w => review'[v] = review[v]
      /\ review'[w].step = "done" /\ review'[w].listed = {}
  BY DEF ReviewEnds, ReviewDies, PromiseInv, PromiseTypeOK, NewReview
<1>3. InsertsAreFirst' /\ JudgedStays /\ VerdictsHaveReasons'
  BY <1>2 DEF PromiseInv, InsertsAreFirst, JudgedStays, VerdictsHaveReasons
<1>4. ReviewsAreSound'
  BY <1>2 DEF PromiseInv, ReviewsAreSound, AsksSoundly, WritesSoundly
<1>5. HandsAreFresh'
  BY <1>2 DEF PromiseInv, HandsAreFresh, VerdictsInHand
<1> QED BY <1>1, <1>3, <1>4, <1>5 DEF PromiseInv

\* A write: it has its reason, and whoever else has the promise on its list finds it
\* contested.
LEMMA WritingKeepsVerdicts ==
    ASSUME PromiseInv, NEW w \in Reviews, NEW q \in Promised, WriteFulfilled(w, q) \/ WriteBroken(w, q)
    PROVE  PromiseInv' /\ JudgedStays
<1>1. /\ UNCHANGED <<calendar, settled, creating, sawOpen, unread>>
      /\ \A p \in Promised : p # q => promise'[p] = promise[p]
      /\ promise'[q].until = promise[q].until
      /\ \/ promise'[q].state = "fulfilled" /\ q \in review[w].fulfilled
         \/ promise'[q].state = "broken" /\ q \in review[w].broken
      /\ contested \subseteq contested'
      /\ (\E v \in Reviews \ {w} : q \in review[v].listed) => q \in contested'
      /\ review[w].step = "write"
  BY DEF WriteFulfilled, WriteBroken, Write, PromiseInv, PromiseTypeOK
<1>2. /\ \A v \in Reviews : v # w => review'[v] = review[v]
      /\ review'[w].step = "write" /\ review'[w].listed = review[w].listed
      /\ review'[w].fulfilled \subseteq review[w].fulfilled
      /\ review'[w].broken \subseteq review[w].broken
      /\ q \notin review'[w].fulfilled \union review'[w].broken
  <2>1. review[w].fulfilled \intersect review[w].broken = {}
    BY <1>1 DEF PromiseInv, ReviewsAreSound, WritesSoundly
  <2>2. CASE WriteFulfilled(w, q)
    BY <2>1, <2>2 DEF WriteFulfilled, PromiseInv, PromiseTypeOK
  <2>3. CASE WriteBroken(w, q)
    BY <2>1, <2>3 DEF WriteBroken, PromiseInv, PromiseTypeOK
  <2> QED BY <2>2, <2>3
<1>3. PromiseTypeOK'
  <2>1. \A verdict \in States : [promise EXCEPT ![q].state = verdict] \in [Promised -> [state : States, until : Days]]
    BY DEF PromiseInv, PromiseTypeOK
  <2>2. promise' \in [Promised -> [state : States, until : Days]]
    BY <2>1 DEF WriteFulfilled, WriteBroken, Write, States
  <2>3. review' \in [Reviews -> ReviewRecords]
    <3>1. review[w].fulfilled \ {q} \in SUBSET Promised /\ review[w].broken \ {q} \in SUBSET Promised
      BY DEF PromiseInv, PromiseTypeOK
    <3>2. review \in [Reviews -> ReviewRecords]
      BY DEF PromiseInv, PromiseTypeOK, ReviewRecords
    <3> DEFINE kept == [review[w] EXCEPT !.fulfilled = review[w].fulfilled \ {q}]
               lost == [review[w] EXCEPT !.broken = review[w].broken \ {q}]
    <3>3. review' = [review EXCEPT ![w] = kept] \/ review' = [review EXCEPT ![w] = lost]
      BY <3>2 DEF WriteFulfilled, WriteBroken, ReviewRecords
    <3>4. kept \in ReviewRecords /\ lost \in ReviewRecords
      BY <3>1, <3>2, ReviewsChange
    <3> HIDE DEF kept, lost
    <3> QED BY <3>2, <3>3, <3>4
  <2>4. contested' \subseteq Promised
    BY DEF WriteFulfilled, WriteBroken, Write, PromiseInv, PromiseTypeOK
  <2> QED BY <1>1, <2>2, <2>3, <2>4 DEF PromiseInv, PromiseTypeOK, ReviewRecords
<1>4. /\ WritesSoundly(w)
      /\ q \in review[w].listed /\ promise[q].state # "none"
      /\ promise[q].state = "pending" \/ q \in contested
  BY <1>1 DEF PromiseInv, ReviewsAreSound, WritesSoundly, HandsAreFresh, VerdictsInHand
<1>5. \A v \in Reviews : review[v].listed \subseteq Promised
  BY DEF PromiseInv, PromiseTypeOK
<1>6. InsertsAreFirst'
  BY <1>1, <1>4 DEF PromiseInv, InsertsAreFirst
<1>7. JudgedStays
  BY <1>1, <1>4 DEF JudgedStays
<1>8. VerdictsHaveReasons'
  BY <1>1, <1>4 DEF PromiseInv, VerdictsHaveReasons, WritesSoundly
<1>9. ReviewsAreSound'
  <2> SUFFICES ASSUME NEW v \in Reviews
               PROVE /\ \A p \in review'[v].listed : promise'[p].state # "none"
                     /\ review'[v].step = "ask" => AsksSoundly(v)'
                     /\ review'[v].step = "write" => WritesSoundly(v)'
    BY DEF ReviewsAreSound
  <2>1. \A p \in Promised : promise'[p].until = promise[p].until
    BY <1>1
  <2>2. review'[v].listed = review[v].listed
    BY <1>2
  <2>3. \A p \in review'[v].listed : promise'[p].state # "none"
    BY <1>1, <1>5, <2>2 DEF PromiseInv, ReviewsAreSound
  <2>4. review'[v].step = "ask" => AsksSoundly(v)'
    BY <1>1, <1>2 DEF PromiseInv, ReviewsAreSound, AsksSoundly
  <2>5. review'[v].step = "write" => WritesSoundly(v)'
    BY <1>1, <1>2, <1>5, <2>1 DEF PromiseInv, ReviewsAreSound, WritesSoundly
  <2> QED BY <2>3, <2>4, <2>5
<1>10. HandsAreFresh'
  <2> SUFFICES ASSUME NEW v \in Reviews, NEW p \in VerdictsInHand(v)'
               PROVE promise'[p].state = "pending" \/ p \in contested'
    BY DEF HandsAreFresh
  <2>1. p \in VerdictsInHand(v) /\ p \in review[v].listed
    <3>1. p \in VerdictsInHand(v)
      BY <1>1, <1>2 DEF VerdictsInHand
    <3>2. review[v].step = "write" => WritesSoundly(v)
      BY DEF PromiseInv, ReviewsAreSound
    <3> QED BY <3>1, <3>2 DEF VerdictsInHand, WritesSoundly
  <2>2. CASE p = q
    BY <1>1, <1>2, <2>1, <2>2 DEF VerdictsInHand
  <2>3. CASE p # q
    BY <1>1, <1>5, <2>1, <2>3 DEF PromiseInv, HandsAreFresh
  <2> QED BY <2>2, <2>3
<1> QED BY <1>3, <1>6, <1>8, <1>9, <1>10, <1>7 DEF PromiseInv

LEMMA PromiseStepKeeps == ASSUME PromiseInv, [PromiseNext]_promiseVars PROVE PromiseInv' /\ JudgedStays
<1>1. CASE UNCHANGED promiseVars
  BY <1>1 DEF promiseVars, PromiseInv, PromiseTypeOK, InsertsAreFirst, ReviewsAreSound, AsksSoundly,
              WritesSoundly, HandsAreFresh, VerdictsInHand, VerdictsHaveReasons, JudgedStays
<1>2. CASE PromiseNext
  BY <1>2, DayKeepsVerdicts, SettlingKeeps, CheckingKeepsVerdicts, PromisingKeeps, ListingKeepsVerdicts, AskingKeepsVerdicts,
     JudgingKeeps, EndingKeepsVerdicts, WritingKeepsVerdicts DEF PromiseNext
<1> QED BY <1>1, <1>2

\* Every verdict was reached on what the ERP said, or on its silence, and stands unless two
\* reviews had the promise in hand at once (settlePendingPromises, updateStatus).
THEOREM VerdictsAreReal == PromiseSpec => VerdictsAreSound
<1>1. PromiseInv /\ [PromiseNext]_promiseVars => PromiseInv'
  BY PromiseStepKeeps
<1>2. PromiseInv /\ [PromiseNext]_promiseVars =>
        [\A p \in Promised :
            promise[p].state \in {"fulfilled", "broken"} =>
                promise'[p] = promise[p] \/ p \in contested']_promiseVars
  BY PromiseStepKeeps DEF JudgedStays
<1>3. PromiseInv => VerdictsHaveReasons
  BY DEF PromiseInv
<1> QED BY PromisesInitially, <1>1, <1>2, <1>3, PTL DEF PromiseSpec, VerdictsAreSound, VerdictsStand

-----------------------------------------------------------------------------
(* The office.                                                             *)

LEMMA OfficeStep ==
    ASSUME [OfficeNext]_officeVars
    PROVE  /\ [PromiseNext]_promiseVars /\ [AccountNext]_accountVars /\ [ChatNext]_chatVars /\ [LeadNext]_leadVars
           /\ [AlertNext]_alertVars /\ [RegisterNext]_registerVars /\ [FiguresNext]_figureVars
           /\ UNCHANGED part
<1> USE DEF officeVars
<1>1. CASE UNCHANGED officeVars
  BY <1>1
<1>2. CASE PromisesRun
  BY <1>2 DEF PromisesRun
<1>3. CASE AccountsRun
  BY <1>3 DEF AccountsRun
<1>4. CASE ChatRuns
  BY <1>4 DEF ChatRuns
<1>5. CASE LeadsRun
  BY <1>5 DEF LeadsRun
<1>6. CASE AlertsRun
  BY <1>6 DEF AlertsRun
<1>7. CASE RegistersRun
  BY <1>7 DEF RegistersRun
<1>8. CASE FiguresRun
  BY <1>8 DEF FiguresRun
<1> QED BY <1>1, <1>2, <1>3, <1>4, <1>5, <1>6, <1>7, <1>8 DEF OfficeNext

\* The office implements each of its parts: whichever runs, the others stand still, so
\* what is proved of a part alone is proved of it here.
THEOREM OfficeIsItsParts ==
    OfficeSpec => PromiseSpec /\ AccountSpec /\ ChatSpec /\ LeadSpec /\ AlertSpec /\ RegisterSpec /\ FiguresSpec
<1>1. OfficeInit => /\ PromiseInit /\ AccountInit /\ ChatInit /\ LeadInit
                    /\ AlertInit /\ RegisterInit /\ FiguresInit
  BY DEF OfficeInit
<1> QED
  BY <1>1, OfficeStep, PTL
     DEF OfficeSpec, PromiseSpec, AccountSpec, ChatSpec, LeadSpec, AlertSpec, RegisterSpec, FiguresSpec

\* Every part of the office is of the type its module says, while it runs.
THEOREM OfficeIsTyped == SomebodyAtFirst /\ OfficeSpec => []OfficeTypeOK
<1>1. OfficeInit => part \in Parts
  BY DEF OfficeInit
<1>2. part \in Parts /\ [OfficeNext]_officeVars => (part \in Parts)'
  BY OfficeStep
<1>3. PromiseSpec => []PromiseTypeOK
  <2>1. PromiseInv => PromiseTypeOK
    BY DEF PromiseInv
  <2> QED BY <2>1, PromisesInitially, PromiseStepKeeps, PTL DEF PromiseSpec
<1>4. ChatSpec => []ChatTypeOK
  <2>1. ChatInv => ChatTypeOK
    BY DEF ChatInv
  <2> QED BY <2>1, ChatInitially, ChatStepKeeps, PTL DEF ChatSpec
<1>5. LeadSpec => []LeadTypeOK
  <2>1. LeadInv => LeadTypeOK
    BY DEF LeadInv
  <2> QED BY <2>1, LeadInitially, LeadStepKeeps, PTL DEF LeadSpec
<1>6. AlertSpec => []AlertTypeOK
  <2>1. AlertInv => AlertTypeOK
    BY DEF AlertInv
  <2> QED BY <2>1, AlertsInitially, AlertStepKeeps, PTL DEF AlertSpec
<1>7. RegisterSpec => []RegisterTypeOK
  <2>1. RegisterInv => RegisterTypeOK
    BY DEF RegisterInv
  <2> QED BY <2>1, RegistersInitially, RegisterStepKeeps, PTL DEF RegisterSpec
<1>8. /\ part \in Parts /\ PromiseTypeOK /\ AccountTypeOK /\ ChatTypeOK /\ LeadTypeOK
      /\ AlertTypeOK /\ RegisterTypeOK /\ FiguresTypeOK
      => OfficeTypeOK
  <2> SUFFICES ASSUME part \in Parts, PromiseTypeOK, AccountTypeOK, ChatTypeOK, LeadTypeOK,
                      AlertTypeOK, RegisterTypeOK, FiguresTypeOK
               PROVE  OfficeTypeOK
    OBVIOUS
  <2>1. part \in {"promises", "accounts", "chat", "leads", "alerts", "registers", "figures"}
    BY PartsAssumption
  <2> QED BY <2>1 DEF OfficeTypeOK
<1> QED
  BY <1>1, <1>2, <1>3, <1>4, <1>5, <1>6, <1>7, <1>8, OfficeIsItsParts, AccountsAreTyped, FiguresAreTyped, PTL
     DEF OfficeSpec
=============================================================================
